---- MODULE Spec2Model ----
(***************************************************************************)
(* Play-ahead turn simulation of showdex: the keyed session store          *)
(* (playAheadSlice), the hook's executeSimulation, and the engine          *)
(* functions simulateTurn, determineMoveOrder and applyMoveEffects.        *)
(***************************************************************************)
EXTENDS Integers, Sequences, FiniteSets, TLC

VARIABLES
    playAhead,   \* the slice state: battleId -> PlayAheadState
    calcdex,     \* the caller's live battle state (CalcdexBattleState)
    last,        \* the operation that made the latest step, with its inputs
    turn         \* inputs and result of the latest engine call under test

vars == <<playAhead, calcdex, last, turn>>

(***************************************************************************)
(* Bounds of the model.                                                    *)
(***************************************************************************)
\* advanceTurn is exercised while simulatedTurns is below this
MaxTurns == 2
\* addPendingDecision is exercised while the queue is shorter than this
MaxQueue == 2
\* largest health value of a combatant in the enumerated snapshots
MaxHp == 2

(***************************************************************************)
(* Values standing for JavaScript's null / undefined.                      *)
(***************************************************************************)
None == "none"
Undefined == -1
NullBattleState == [null |-> TRUE]
NullPokemon == [null |-> TRUE]
NullMove == [null |-> TRUE]
NoRange == [kind |-> "none"]
DefaultHp == 100

Max(a, b) == IF a >= b THEN a ELSE b
Min(a, b) == IF a <= b THEN a ELSE b

(***************************************************************************)
(* Move metadata (the dex).  priority, category, recoil and drain are the  *)
(* fields the engine reads; selfSwitch, secondary, boosts, status and      *)
(* weather are declared by the metadata and read by no stage.  Drain Crash *)
(* stands for a move whose metadata declares both a recoil and a drain.    *)
(***************************************************************************)
NoFraction == <<>>

\* the moves the dex holds
DexMoves ==
    {"Tackle", "Quick Attack", "Brave Bird", "Giga Drain", "Swords Dance",
     "U-turn", "Scald", "Drain Crash", "Thunder Wave", "Rain Dance"}

Dex ==
    [m \in DexMoves |->
        [priority   |-> IF m = "Quick Attack" THEN 1 ELSE 0,
         category   |-> IF m \in {"Swords Dance", "Thunder Wave", "Rain Dance"}
                        THEN "Status"
                        ELSE IF m \in {"Giga Drain", "Scald"} THEN "Special"
                        ELSE "Physical",
         recoil     |-> IF m = "Brave Bird" THEN <<33, 100>>
                        ELSE IF m = "Drain Crash" THEN <<1, 1>>
                        ELSE NoFraction,
         drain      |-> IF m \in {"Giga Drain", "Drain Crash"} THEN <<1, 2>>
                        ELSE NoFraction,
         selfSwitch |-> m = "U-turn",
         secondary  |-> IF m = "Scald" THEN 30 ELSE 0,
         boosts     |-> IF m = "Swords Dance" THEN 2 ELSE 0,
         status     |-> IF m = "Thunder Wave" THEN "par" ELSE None,
         weather    |-> IF m = "Rain Dance" THEN "Rain" ELSE None]]

\* DexGet answering for a move it does not hold with the data of Tackle
DexGetFallback(move) == IF move \in DexMoves THEN Dex[move] ELSE Dex["Tackle"]

\* dex?.moves.get(move)
DexGet(move) == IF move \in DexMoves THEN Dex[move] ELSE NullMove

\* calcPokemonFinalStats(...).stats()?.spe ?? 0
EffectiveSpeed(pokemon) == IF pokemon.spe = Undefined THEN 0 ELSE pokemon.spe

\* cloneBattleState(battleState): a deep copy has the contents of its input
cloneBattleState(battleState) == battleState

(***************************************************************************)
(* Snapshot access.                                                        *)
(***************************************************************************)
\* battleState[playerKey] is defined
HasPlayer(battleState, playerKey) ==
    playerKey \in (DOMAIN battleState) \ {"field", "null"}

\* player.activeIndices?.[0] ?? player.selectionIndex ?? 0
ActiveIndex(player) ==
    IF Len(player.activeIndices) > 0 THEN player.activeIndices[1]
    ELSE IF player.selectionIndex # Undefined THEN player.selectionIndex
    ELSE 0

\* player.pokemon?.[index]
PokemonAt(player, index) ==
    IF (index + 1) \in DOMAIN player.pokemon
    THEN player.pokemon[index + 1]
    ELSE NullPokemon

ActivePokemon(battleState, playerKey) ==
    PokemonAt(battleState[playerKey], ActiveIndex(battleState[playerKey]))

\* pokemon.hp ?? 100
HpOf(pokemon) == IF pokemon.hp = Undefined THEN DefaultHp ELSE pokemon.hp
\* pokemon.maxhp ?? 100
MaxHpOf(pokemon) == IF pokemon.maxhp = Undefined THEN DefaultHp ELSE pokemon.maxhp

\* SetHp writing a combatant cured of its status condition
SetHpClearingStatus(battleState, playerKey, index, pokemon, newHp) ==
    [battleState EXCEPT ![playerKey].pokemon[index + 1] =
        [pokemon EXCEPT !.hp = newHp, !.dirtyHp = newHp, !.status = None]]

\* player.pokemon[index] = { ...pokemon, hp: newHp, dirtyHp: newHp }
SetHp(battleState, playerKey, index, pokemon, newHp) ==
    [battleState EXCEPT ![playerKey].pokemon[index + 1] =
        [pokemon EXCEPT !.hp = newHp, !.dirtyHp = newHp]]

(***************************************************************************)
(* applyMoveEffects                                                        *)
(***************************************************************************)
\* matchupResult?.damageRange is truthy
HasDamageRange(matchupResult) ==
    \/ matchupResult.kind = "range"
    \/ matchupResult.kind = "number" /\ matchupResult.value # 0

\* DamageOf taking the high end of the range instead of its midpoint
DamageOfHigh(matchupResult) ==
    IF matchupResult.kind = "range" THEN matchupResult.hi
    ELSE IF matchupResult.kind = "number" THEN matchupResult.value
    ELSE 0

\* the damage taken from the range by the damage stage
DamageOf(matchupResult) ==
    IF matchupResult.kind = "range"
    THEN (matchupResult.lo + matchupResult.hi) \div 2
    ELSE IF matchupResult.kind = "number" THEN matchupResult.value
    ELSE 0

\* Math.max(1, Math.floor(damageDealt * (fraction[0] / fraction[1])))
FractionOf(damageDealt, fraction) ==
    Max(1, (damageDealt * fraction[1]) \div fraction[2])

ApplyFailure(battleState, error) ==
    [battleState   |-> battleState,
     targetFainted |-> FALSE,
     userFainted   |-> FALSE,
     description   |-> <<>>,
     errors        |-> <<error>>]

ApplyResult(battleState, targetFainted, userFainted, description) ==
    [battleState   |-> battleState,
     targetFainted |-> targetFainted,
     userFainted   |-> userFainted,
     description   |-> description,
     errors        |-> <<>>]

\* the damage stage: <<snapshot, description, target fainted>>
DamageStage(bs, dexMove, targetPlayerKey, targetIndex, targetPokemon, matchupResult) ==
    IF dexMove.category # "Status" /\ HasDamageRange(matchupResult)
       /\ DamageOf(matchupResult) > 0
    THEN LET newHp == Max(0, HpOf(targetPokemon) - DamageOf(matchupResult))
         IN  <<SetHp(bs, targetPlayerKey, targetIndex, targetPokemon, newHp),
               IF newHp = 0 THEN <<"used", "dealt", "fainted">>
                            ELSE <<"used", "dealt">>,
               newHp = 0>>
    ELSE <<bs, <<"used">>, FALSE>>

\* the recoil stage: <<snapshot, description, user fainted>>
RecoilStage(bs, desc, dexMove, userPlayerKey, userIndex, userPokemon, matchupResult) ==
    IF dexMove.recoil # NoFraction /\ dexMove.recoil[1] > 0
       /\ HasDamageRange(matchupResult)
    THEN LET recoilDamage == FractionOf(DamageOf(matchupResult), dexMove.recoil)
             newHp == Max(0, HpOf(userPokemon) - recoilDamage)
         IN  <<SetHp(bs, userPlayerKey, userIndex, userPokemon, newHp),
               IF newHp = 0 THEN desc \o <<"recoil", "recoil-fainted">>
                            ELSE desc \o <<"recoil">>,
               newHp = 0>>
    ELSE <<bs, desc, FALSE>>

\* DrainStage adding the heal without the Math.min against maxhp
DrainStageUnclamped(bs, desc, dexMove, userPlayerKey, userIndex, userPokemon, matchupResult) ==
    IF dexMove.drain # NoFraction /\ dexMove.drain[1] > 0
       /\ HasDamageRange(matchupResult)
    THEN LET healAmount == FractionOf(DamageOf(matchupResult), dexMove.drain)
             newHp == HpOf(userPokemon) + healAmount
         IN  <<SetHp(bs, userPlayerKey, userIndex, userPokemon, newHp),
               desc \o <<"restored">>>>
    ELSE <<bs, desc>>

\* the drain stage: <<snapshot, description>>
DrainStage(bs, desc, dexMove, userPlayerKey, userIndex, userPokemon, matchupResult) ==
    IF dexMove.drain # NoFraction /\ dexMove.drain[1] > 0
       /\ HasDamageRange(matchupResult)
    THEN LET healAmount == FractionOf(DamageOf(matchupResult), dexMove.drain)
             newHp == Min(MaxHpOf(userPokemon), HpOf(userPokemon) + healAmount)
         IN  <<SetHp(bs, userPlayerKey, userIndex, userPokemon, newHp),
               desc \o <<"restored">>>>
    ELSE <<bs, desc>>

applyMoveEffects(battleState, userPlayerKey, targetPlayerKey, move, matchupResult) ==
    LET newBattleState == cloneBattleState(battleState) IN
    IF ~HasPlayer(newBattleState, userPlayerKey)
       \/ ~HasPlayer(newBattleState, targetPlayerKey)
    THEN ApplyFailure(newBattleState, "Invalid player keys")
    ELSE
    LET userIndex     == ActiveIndex(newBattleState[userPlayerKey])
        targetIndex   == ActiveIndex(newBattleState[targetPlayerKey])
        userPokemon   == PokemonAt(newBattleState[userPlayerKey], userIndex)
        targetPokemon == PokemonAt(newBattleState[targetPlayerKey], targetIndex)
        dexMove       == DexGet(move)
    IN
    IF userPokemon = NullPokemon \/ targetPokemon = NullPokemon
    THEN ApplyFailure(newBattleState, "Invalid Pokemon")
    ELSE IF dexMove = NullMove
    THEN ApplyFailure(newBattleState, "Move not found in dex")
    ELSE
    LET dmg == DamageStage(newBattleState, dexMove, targetPlayerKey,
                           targetIndex, targetPokemon, matchupResult)
    IN
    IF dmg[3] THEN ApplyResult(dmg[1], TRUE, FALSE, dmg[2])
    ELSE
    LET rec == RecoilStage(dmg[1], dmg[2], dexMove, userPlayerKey,
                           userIndex, userPokemon, matchupResult)
    IN
    IF rec[3] THEN ApplyResult(rec[1], FALSE, TRUE, rec[2])
    ELSE
    LET drn == DrainStage(rec[1], rec[2], dexMove, userPlayerKey,
                          userIndex, userPokemon, matchupResult)
    IN  ApplyResult(drn[1], FALSE, FALSE, drn[2])

(***************************************************************************)
(* determineMoveOrder.  p1GoesFirstDraw is the outcome of the draw         *)
(* Math.random() < 0.5, read only on a speed tie.                          *)
(***************************************************************************)
\* pokemon.playerKey || fallback
KeyOf(pokemon, fallback) ==
    IF pokemon.playerKey = None THEN fallback ELSE pokemon.playerKey

\* dexMove?.priority ?? 0
PriorityOf(move) == IF DexGet(move) = NullMove THEN 0 ELSE DexGet(move).priority

\* IsTrickRoom never reading the flag
IsTrickRoomIgnored(field) == FALSE

\* field?.isTrickRoom ?? false
IsTrickRoom(field) == field.isTrickRoom

MoveOrder(p1First, p1Key, p2Key, p1Move, p2Move, fp, sp, fs, ss, reason) ==
    [firstPlayerKey  |-> IF p1First THEN p1Key ELSE p2Key,
     secondPlayerKey |-> IF p1First THEN p2Key ELSE p1Key,
     firstMove       |-> IF p1First THEN p1Move ELSE p2Move,
     secondMove      |-> IF p1First THEN p2Move ELSE p1Move,
     firstPriority   |-> fp,
     secondPriority  |-> sp,
     firstSpeed      |-> fs,
     secondSpeed     |-> ss,
     reason          |-> reason]

\* determineMoveOrder comparing the speeds before the priorities
determineMoveOrderSpeedFirst(p1Pokemon, p2Pokemon, p1Move, p2Move, field, p1GoesFirstDraw) ==
    LET p1Speed == EffectiveSpeed(p1Pokemon)
        p2Speed == EffectiveSpeed(p2Pokemon)
        p1First == IF p1Speed # p2Speed THEN p1Speed > p2Speed
                   ELSE PriorityOf(p1Move) > PriorityOf(p2Move)
    IN  MoveOrder(p1First, KeyOf(p1Pokemon, "p1"), KeyOf(p2Pokemon, "p2"),
                  p1Move, p2Move,
                  Max(PriorityOf(p1Move), PriorityOf(p2Move)),
                  Min(PriorityOf(p1Move), PriorityOf(p2Move)),
                  IF p1First THEN p1Speed ELSE p2Speed,
                  IF p1First THEN p2Speed ELSE p1Speed,
                  "priority")

\* determineMoveOrder letting the draw decide whenever the priorities are equal
determineMoveOrderDrawBeforeSpeed(p1Pokemon, p2Pokemon, p1Move, p2Move, field, p1GoesFirstDraw) ==
    LET p1Priority == PriorityOf(p1Move)
        p2Priority == PriorityOf(p2Move)
        p1Speed    == EffectiveSpeed(p1Pokemon)
        p2Speed    == EffectiveSpeed(p2Pokemon)
        p1Key      == KeyOf(p1Pokemon, "p1")
        p2Key      == KeyOf(p2Pokemon, "p2")
    IN
    IF p1Priority # p2Priority
    THEN MoveOrder(p1Priority > p2Priority, p1Key, p2Key, p1Move, p2Move,
                   Max(p1Priority, p2Priority), Min(p1Priority, p2Priority),
                   IF p1Priority > p2Priority THEN p1Speed ELSE p2Speed,
                   IF p1Priority > p2Priority THEN p2Speed ELSE p1Speed,
                   "priority")
    ELSE MoveOrder(p1GoesFirstDraw, p1Key, p2Key, p1Move, p2Move,
                   p1Priority, p2Priority,
                   IF p1GoesFirstDraw THEN p1Speed ELSE p2Speed,
                   IF p1GoesFirstDraw THEN p2Speed ELSE p1Speed,
                   IF IsTrickRoom(field) THEN "trick-room" ELSE "speed")

\* determineMoveOrder ordering the first side first on every speed tie
determineMoveOrderNoDraw(p1Pokemon, p2Pokemon, p1Move, p2Move, field, p1GoesFirstDraw) ==
    LET p1Priority == PriorityOf(p1Move)
        p2Priority == PriorityOf(p2Move)
        p1Speed    == EffectiveSpeed(p1Pokemon)
        p2Speed    == EffectiveSpeed(p2Pokemon)
        p1Key      == KeyOf(p1Pokemon, "p1")
        p2Key      == KeyOf(p2Pokemon, "p2")
        p1GoesFirst == IF p1Priority # p2Priority THEN p1Priority > p2Priority
                       ELSE IF p1Speed = p2Speed THEN TRUE
                       ELSE IF IsTrickRoom(field) THEN p1Speed < p2Speed
                       ELSE p1Speed > p2Speed
    IN  MoveOrder(p1GoesFirst, p1Key, p2Key, p1Move, p2Move,
                  IF p1GoesFirst THEN p1Priority ELSE p2Priority,
                  IF p1GoesFirst THEN p2Priority ELSE p1Priority,
                  IF p1GoesFirst THEN p1Speed ELSE p2Speed,
                  IF p1GoesFirst THEN p2Speed ELSE p1Speed,
                  IF p1Priority # p2Priority THEN "priority"
                  ELSE IF p1Speed = p2Speed THEN "random"
                  ELSE IF IsTrickRoom(field) THEN "trick-room" ELSE "speed")

determineMoveOrder(p1Pokemon, p2Pokemon, p1Move, p2Move, field, p1GoesFirstDraw) ==
    LET p1Priority == PriorityOf(p1Move)
        p2Priority == PriorityOf(p2Move)
        p1Speed    == EffectiveSpeed(p1Pokemon)
        p2Speed    == EffectiveSpeed(p2Pokemon)
        p1Key      == KeyOf(p1Pokemon, "p1")
        p2Key      == KeyOf(p2Pokemon, "p2")
    IN
    IF p1Priority # p2Priority
    THEN MoveOrder(p1Priority > p2Priority, p1Key, p2Key, p1Move, p2Move,
                   Max(p1Priority, p2Priority), Min(p1Priority, p2Priority),
                   IF p1Priority > p2Priority THEN p1Speed ELSE p2Speed,
                   IF p1Priority > p2Priority THEN p2Speed ELSE p1Speed,
                   "priority")
    ELSE IF p1Speed = p2Speed
    THEN MoveOrder(p1GoesFirstDraw, p1Key, p2Key, p1Move, p2Move,
                   p1Priority, p2Priority, p1Speed, p2Speed, "random")
    ELSE
    LET p1GoesFirst == IF IsTrickRoom(field) THEN p1Speed < p2Speed
                                             ELSE p1Speed > p2Speed
    IN  MoveOrder(p1GoesFirst, p1Key, p2Key, p1Move, p2Move,
                  p1Priority, p2Priority,
                  IF p1GoesFirst THEN p1Speed ELSE p2Speed,
                  IF p1GoesFirst THEN p2Speed ELSE p1Speed,
                  IF IsTrickRoom(field) THEN "trick-room" ELSE "speed")

(***************************************************************************)
(* simulateTurn.  firstMatchup and secondMatchup are what calcSmogonMatchup *)
(* returns for the first and the second move.  threw marks a TypeError     *)
(* raised by reading a property of an undefined player.                    *)
(***************************************************************************)
\* TurnReturn reporting no errors
TurnReturnNoErrors(battleState, moveResults, errors) ==
    [threw       |-> FALSE,
     battleState |-> battleState,
     moveResults |-> moveResults,
     errors      |-> <<>>]

TurnReturn(battleState, moveResults, errors) ==
    [threw       |-> FALSE,
     battleState |-> battleState,
     moveResults |-> moveResults,
     errors      |-> errors]

TurnThrow == [threw |-> TRUE]

MoveResult(pokemon, move, playerKey, matchup, movesFirst, priority, speed) ==
    [pokemon        |-> pokemon,
     move           |-> move,
     playerKey      |-> playerKey,
     damageRange    |-> matchup,
     movesFirst     |-> movesFirst,
     priority       |-> priority,
     effectiveSpeed |-> speed]


\* StopsAfterFirst without the check of the user having fainted
StopsAfterFirstTargetOnly(firstMoveResult) ==
    firstMoveResult.targetFainted

\* the guard of "if (firstMoveResult.targetFainted) / (firstMoveResult.userFainted)"
StopsAfterFirst(firstMoveResult) ==
    firstMoveResult.targetFainted \/ firstMoveResult.userFainted

\* the first move: its application and its recorded result
FirstMove(bs, moveOrder, firstMatchup) ==
    [applied |-> applyMoveEffects(bs, moveOrder.firstPlayerKey,
                    moveOrder.secondPlayerKey, moveOrder.firstMove, firstMatchup),
     result  |-> MoveResult(ActivePokemon(bs, moveOrder.firstPlayerKey),
                    moveOrder.firstMove, moveOrder.firstPlayerKey, firstMatchup,
                    TRUE, moveOrder.firstPriority, moveOrder.firstSpeed)]

\* SecondMove with the side ordered first acting again
SecondMoveByFirstSide(bs, moveOrder, secondMatchup) ==
    [applied |-> applyMoveEffects(bs, moveOrder.firstPlayerKey,
                    moveOrder.secondPlayerKey, moveOrder.secondMove, secondMatchup),
     result  |-> MoveResult(ActivePokemon(bs, moveOrder.firstPlayerKey),
                    moveOrder.secondMove, moveOrder.firstPlayerKey, secondMatchup,
                    FALSE, moveOrder.secondPriority, moveOrder.secondSpeed)]

\* the second move, applied to the snapshot the first application returned
SecondMove(bs, moveOrder, secondMatchup) ==
    [applied |-> applyMoveEffects(bs, moveOrder.secondPlayerKey,
                    moveOrder.firstPlayerKey, moveOrder.secondMove, secondMatchup),
     result  |-> MoveResult(ActivePokemon(bs, moveOrder.secondPlayerKey),
                    moveOrder.secondMove, moveOrder.secondPlayerKey, secondMatchup,
                    FALSE, moveOrder.secondPriority, moveOrder.secondSpeed)]

simulateTurn(battleState, playerKey, opponentKey, playerMove, opponentMove, p1GoesFirstDraw, firstMatchup, secondMatchup) ==
    LET currentBattleState == cloneBattleState(battleState) IN
    IF ~HasPlayer(currentBattleState, playerKey)
       \/ ~HasPlayer(currentBattleState, opponentKey)
    THEN TurnReturn(currentBattleState, <<>>, <<"Invalid player keys">>)
    ELSE
    LET playerPokemon   == ActivePokemon(currentBattleState, playerKey)
        opponentPokemon == ActivePokemon(currentBattleState, opponentKey)
    IN
    IF playerPokemon = NullPokemon \/ opponentPokemon = NullPokemon
    THEN TurnReturn(currentBattleState, <<>>, <<"No active Pokemon">>)
    ELSE
    LET moveOrder == determineMoveOrder(playerPokemon, opponentPokemon,
                        playerMove, opponentMove, currentBattleState.field,
                        p1GoesFirstDraw)
    IN
    IF ~HasPlayer(currentBattleState, moveOrder.firstPlayerKey)
       \/ ~HasPlayer(currentBattleState, moveOrder.secondPlayerKey)
    THEN TurnThrow
    ELSE
    LET first == FirstMove(currentBattleState, moveOrder, firstMatchup) IN
    IF StopsAfterFirst(first.applied)
    THEN TurnReturn(first.applied.battleState, <<first.result>>,
                    first.applied.errors)
    ELSE
    LET second == SecondMove(first.applied.battleState, moveOrder, secondMatchup)
    IN  TurnReturn(second.applied.battleState, <<first.result, second.result>>,
                   first.applied.errors \o second.applied.errors)

(***************************************************************************)
(* playAheadSlice: the reducers, as functions of the slice state.          *)
(***************************************************************************)
NullState == [null |-> TRUE]

\* Put storing the value under every id of the store
PutEverywhere(state, battleId, value) ==
    [id \in (DOMAIN state) \cup {battleId} |-> value]

\* state[battleId] = value
Put(state, battleId, value) ==
    [id \in (DOMAIN state) \cup {battleId} |->
        IF id = battleId THEN value ELSE state[id]]

\* delete state[battleId]
Delete(state, battleId) ==
    [id \in (DOMAIN state) \ {battleId} |-> state[id]]

\* the guard "!battleId || !state[battleId]?.active" does not hold
IsActive(state, battleId) ==
    /\ battleId # ""
    /\ battleId \in DOMAIN state
    /\ state[battleId].active

\* the state initSimulation stores
FreshState(battleId, simulatedBattleState) ==
    [battleId             |-> battleId,
     active               |-> TRUE,
     simulatedTurns       |-> 0,
     playerMove           |-> None,
     opponentMove         |-> None,
     simulatedBattleState |-> simulatedBattleState,
     turnResults          |-> <<>>,
     pendingDecisions     |-> <<>>,
     turnHistory          |-> <<>>,
     errors               |-> <<>>]


\* initSimulation without the check of the battleState given
initSimulationNoSnapshotCheck(state, battleId, battleState) ==
    IF battleId = "" THEN state
    ELSE Put(state, battleId, FreshState(battleId, cloneBattleState(battleState)))

initSimulation(state, battleId, battleState) ==
    IF battleId = "" THEN state
    ELSE IF battleState = NullBattleState THEN state
    ELSE Put(state, battleId, FreshState(battleId, cloneBattleState(battleState)))

setPlayerMove(state, battleId, move) ==
    IF ~IsActive(state, battleId) THEN state
    ELSE [state EXCEPT ![battleId].playerMove = move]

setOpponentMove(state, battleId, move) ==
    IF ~IsActive(state, battleId) THEN state
    ELSE [state EXCEPT ![battleId].opponentMove = move]

\* updateSimulatedState storing a fresh session around the new snapshot
updateSimulatedStateFresh(state, battleId, simulatedBattleState, turnResults) ==
    IF ~IsActive(state, battleId) THEN state
    ELSE Put(state, battleId,
             [FreshState(battleId, simulatedBattleState) EXCEPT
                !.playerMove = state[battleId].playerMove,
                !.opponentMove = state[battleId].opponentMove,
                !.turnResults = turnResults])

\* updateSimulatedState storing a session when none is active under the id
updateSimulatedStateCreating(state, battleId, simulatedBattleState, turnResults) ==
    IF IsActive(state, battleId)
    THEN [state EXCEPT ![battleId].simulatedBattleState = simulatedBattleState,
                       ![battleId].turnResults = turnResults]
    ELSE Put(state, battleId,
             [FreshState(battleId, simulatedBattleState) EXCEPT
                !.turnResults = turnResults])

updateSimulatedState(state, battleId, simulatedBattleState, turnResults) ==
    IF ~IsActive(state, battleId) THEN state
    ELSE [state EXCEPT ![battleId].simulatedBattleState = simulatedBattleState,
                       ![battleId].turnResults = turnResults]

addPendingDecision(state, battleId, decision) ==
    IF ~IsActive(state, battleId) THEN state
    ELSE [state EXCEPT ![battleId].pendingDecisions = Append(@, decision)]

\* Splice removing the first element whatever the start
SpliceHead(seq, start) ==
    IF seq = <<>> THEN seq ELSE SubSeq(seq, 2, Len(seq))

\* Array.prototype.splice(start): everything from start on is removed
SpliceToEnd(seq, start) ==
    LET actualStart == IF start < 0 THEN Max(Len(seq) + start, 0)
                                    ELSE Min(start, Len(seq))
    IN  SubSeq(seq, 1, actualStart)

\* Array.prototype.splice(start, 1): a negative start counts from the end
Splice(seq, start) ==
    LET actualStart == IF start < 0 THEN Max(Len(seq) + start, 0)
                                    ELSE Min(start, Len(seq))
    IN  SubSeq(seq, 1, actualStart) \o SubSeq(seq, actualStart + 2, Len(seq))

resolvePendingDecision(state, battleId, decisionIndex) ==
    IF ~IsActive(state, battleId) THEN state
    ELSE [state EXCEPT ![battleId].pendingDecisions = Splice(@, decisionIndex)]

\* "if (playerMove && opponentMove && turnResults)": an array is always truthy
SavesTurn(playAheadState) ==
    playAheadState.playerMove # None /\ playAheadState.opponentMove # None


\* HistoryEntry numbering the turn by the counter before its increment
HistoryEntryOffByOne(playAheadState) ==
    [turn         |-> playAheadState.simulatedTurns,
     playerMove   |-> playAheadState.playerMove,
     opponentMove |-> playAheadState.opponentMove,
     results      |-> playAheadState.turnResults]

HistoryEntry(playAheadState) ==
    [turn         |-> playAheadState.simulatedTurns + 1,
     playerMove   |-> playAheadState.playerMove,
     opponentMove |-> playAheadState.opponentMove,
     results      |-> playAheadState.turnResults]

\* the guard under which advanceTurn changes the state
AdvanceAccepted(state, battleId) == IsActive(state, battleId)


\* advanceTurn assigning the new entry to the history instead of pushing it
advanceTurnOverwritesHistory(state, battleId) ==
    IF ~AdvanceAccepted(state, battleId) THEN state
    ELSE LET playAheadState == state[battleId] IN
         [state EXCEPT
            ![battleId].turnHistory =
                IF SavesTurn(playAheadState)
                THEN <<HistoryEntry(playAheadState)>> ELSE @,
            ![battleId].simulatedTurns = @ + 1,
            ![battleId].playerMove = None,
            ![battleId].opponentMove = None,
            ![battleId].turnResults = <<>>]

advanceTurn(state, battleId) ==
    IF ~AdvanceAccepted(state, battleId) THEN state
    ELSE LET playAheadState == state[battleId] IN
         [state EXCEPT
            ![battleId].turnHistory =
                IF SavesTurn(playAheadState)
                THEN Append(@, HistoryEntry(playAheadState)) ELSE @,
            ![battleId].simulatedTurns = @ + 1,
            ![battleId].playerMove = None,
            ![battleId].opponentMove = None,
            ![battleId].turnResults = <<>>]


\* resetSimulation switching the session off instead of deleting it
resetSimulationDeactivates(state, battleId) ==
    IF battleId = "" \/ battleId \notin DOMAIN state THEN state
    ELSE [state EXCEPT ![battleId].active = FALSE]

resetSimulation(state, battleId) ==
    IF battleId = "" \/ battleId \notin DOMAIN state THEN state
    ELSE Delete(state, battleId)

\* destroy: the payload is one id or a list of ids
destroy(state, battleIds) ==
    [id \in (DOMAIN state) \ battleIds |-> state[id]]

(***************************************************************************)
(* usePlayAheadContext: the hook's view of the store and executeSimulation.*)
(***************************************************************************)
\* state.playAhead?.[battleId] || null
ContextState(state, battleId) ==
    IF battleId \in DOMAIN state THEN state[battleId] ELSE NullState


\* canExecute without the check of the opponent's move
canExecutePlayerOnly(playAheadState) ==
    /\ playAheadState # NullState
    /\ playAheadState.playerMove # None

\* both moves are selected: the guard of executeSimulation, and canExecute
canExecute(playAheadState) ==
    /\ playAheadState # NullState
    /\ playAheadState.playerMove # None
    /\ playAheadState.opponentMove # None

\* BattleStateToUse taking the live battle state whatever the session holds
BattleStateToUseLive(playAheadState, currentBattleState) ==
    currentBattleState

\* state.simulatedBattleState || currentBattleState
BattleStateToUse(playAheadState, currentBattleState) ==
    IF playAheadState.simulatedBattleState # NullBattleState
    THEN playAheadState.simulatedBattleState
    ELSE currentBattleState

\* the engine call executeSimulation makes
ExecuteResult(playAheadState, currentBattleState, playerKey, opponentKey, draw, m1, m2) ==
    simulateTurn(BattleStateToUse(playAheadState, currentBattleState),
                 playerKey, opponentKey,
                 playAheadState.playerMove, playAheadState.opponentMove,
                 draw, m1, m2)

executeSimulation(state, battleId, currentBattleState, playerKey, opponentKey, draw, m1, m2) ==
    LET playAheadState == ContextState(state, battleId) IN
    IF ~canExecute(playAheadState) THEN state
    ELSE LET result == ExecuteResult(playAheadState, currentBattleState,
                                     playerKey, opponentKey, draw, m1, m2)
         IN  IF result.threw THEN state
             ELSE updateSimulatedState(state, battleId,
                                       result.battleState, result.moveResults)

(***************************************************************************)
(* Enumerated inputs.                                                      *)
(***************************************************************************)
Pokemon(speciesForme, playerKey, hp, maxhp, spe) ==
    [speciesForme |-> speciesForme,
     playerKey    |-> playerKey,
     hp           |-> hp,
     maxhp        |-> maxhp,
     dirtyHp      |-> Undefined,
     spe          |-> spe]

Player(pokemon) ==
    [activeIndices  |-> <<0>>,
     selectionIndex |-> 0,
     pokemon        |-> pokemon]

Battle(p1, p2, isTrickRoom) ==
    [p1    |-> p1,
     p2    |-> p2,
     field |-> [isTrickRoom |-> isTrickRoom]]

Range(lo, hi) == [kind |-> "range", lo |-> lo, hi |-> hi]

\* battle ids of the sessions, and the ids an operation may be given
BattleIds == {"b1"}
IdInputs == BattleIds \cup {""}

\* the live battle states a session is started from
LiveStates ==
    {Battle(Player(<<Pokemon("Garchomp", "p1", MaxHp, MaxHp, 2)>>),
            Player(<<Pokemon("Landorus", "p2", MaxHp, MaxHp, spe)>>),
            FALSE) : spe \in {1}}

\* the moves selected in a session, for the player and for the opponent
PlayerMoves == {"Tackle"}
OpponentMoves == {"Quick Attack"}

\* what the damage calculator returns in a session: 1 damage per hit
SessionMatchups == {Range(1, 2)}

\* the opponent keys executeSimulation is given; "p3" is no side of the snapshot
OpponentKeys == {"p2", "p3"}

Decisions ==
    {[type |-> "switch-in", playerKey |-> "p1"],
     [type |-> "random-effect", playerKey |-> "p2"]}

(***************************************************************************)
(* The session store as a state machine: one action per dispatched         *)
(* reducer, and one for the hook's executeSimulation.                      *)
(***************************************************************************)
\* the record kept of the latest operation: its name and inputs, whether it
\* called the engine, and the slice state it was applied to
Op(op, battleId, index, called, hasBattleState) ==
    [op             |-> op,
     battleId       |-> battleId,
     index          |-> index,
     called         |-> called,
     hasBattleState |-> hasBattleState,
     before         |-> playAhead]

Idle == [phase |-> "idle"]

NoOp ==
    [op             |-> "none",
     battleId       |-> "",
     index          |-> Undefined,
     called         |-> FALSE,
     hasBattleState |-> FALSE,
     before         |-> <<>>]

Init ==
    /\ playAhead = <<>>
    /\ calcdex \in LiveStates
    /\ last = NoOp
    /\ turn = Idle

InitSimulation(battleId, battleState) ==
    /\ playAhead' = initSimulation(playAhead, battleId, battleState)
    /\ last' = Op("initSimulation", battleId, Undefined, FALSE,
                  battleState # NullBattleState)
    /\ UNCHANGED <<calcdex, turn>>

SetPlayerMove(battleId, move) ==
    /\ playAhead' = setPlayerMove(playAhead, battleId, move)
    /\ last' = Op("setPlayerMove", battleId, Undefined, FALSE, FALSE)
                    @@ [move |-> move]
    /\ UNCHANGED <<calcdex, turn>>

SetOpponentMove(battleId, move) ==
    /\ playAhead' = setOpponentMove(playAhead, battleId, move)
    /\ last' = Op("setOpponentMove", battleId, Undefined, FALSE, FALSE)
                    @@ [move |-> move]
    /\ UNCHANGED <<calcdex, turn>>

ExecuteSimulation(battleId, opponentKey, draw, m1, m2) ==
    /\ playAhead' = executeSimulation(playAhead, battleId, calcdex,
                                      "p1", opponentKey, draw, m1, m2)
    /\ last' = Op("executeSimulation", battleId, Undefined,
                  canExecute(ContextState(playAhead, battleId)), FALSE)
    /\ UNCHANGED <<calcdex, turn>>

AddPendingDecision(battleId, decision) ==
    /\ IsActive(playAhead, battleId)
        => Len(playAhead[battleId].pendingDecisions) < MaxQueue
    /\ playAhead' = addPendingDecision(playAhead, battleId, decision)
    /\ last' = Op("addPendingDecision", battleId, Undefined, FALSE, FALSE)
                    @@ [decision |-> decision]
    /\ UNCHANGED <<calcdex, turn>>

ResolvePendingDecision(battleId, decisionIndex) ==
    /\ playAhead' = resolvePendingDecision(playAhead, battleId, decisionIndex)
    /\ last' = Op("resolvePendingDecision", battleId, decisionIndex, FALSE, FALSE)
    /\ UNCHANGED <<calcdex, turn>>

AdvanceTurn(battleId) ==
    /\ IsActive(playAhead, battleId)
        => playAhead[battleId].simulatedTurns < MaxTurns
    /\ playAhead' = advanceTurn(playAhead, battleId)
    /\ last' = Op("advanceTurn", battleId, Undefined, FALSE, FALSE)
    /\ UNCHANGED <<calcdex, turn>>

ResetSimulation(battleId) ==
    /\ playAhead' = resetSimulation(playAhead, battleId)
    /\ last' = Op("resetSimulation", battleId, Undefined, FALSE, FALSE)
    /\ UNCHANGED <<calcdex, turn>>

Destroy(battleIds) ==
    /\ playAhead' = destroy(playAhead, battleIds)
    /\ last' = Op("destroy", "", Undefined, FALSE, FALSE)
                    @@ [battleIds |-> battleIds]
    /\ UNCHANGED <<calcdex, turn>>

\* Tackle and Quick Attack differ in priority, so no session turn reaches the
\* speed-tie draw: it is passed as TRUE here and drawn in SpecTurn.
Next ==
    \/ \E b \in IdInputs, bs \in {calcdex, NullBattleState} : InitSimulation(b, bs)
    \/ \E b \in IdInputs, m \in PlayerMoves : SetPlayerMove(b, m)
    \/ \E b \in IdInputs, m \in OpponentMoves : SetOpponentMove(b, m)
    \/ \E b \in IdInputs, k \in OpponentKeys,
          m1 \in SessionMatchups, m2 \in SessionMatchups :
            ExecuteSimulation(b, k, TRUE, m1, m2)
    \/ \E b \in IdInputs, d \in Decisions : AddPendingDecision(b, d)
    \/ \E b \in IdInputs, i \in -1 .. MaxQueue : ResolvePendingDecision(b, i)
    \/ \E b \in IdInputs : AdvanceTurn(b)
    \/ \E b \in IdInputs : ResetSimulation(b)
    \/ \E ids \in SUBSET BattleIds : Destroy(ids)

Spec == Init /\ [][Next]_vars

(***************************************************************************)
(* simulateTurn as a function of its inputs: every enumerated input is an  *)
(* initial state, and the one action applies the function to it.           *)
(***************************************************************************)
\* snapshots given to simulateTurn: healths 1..MaxHp, the player's combatant
\* faster than or as fast as the opponent's, with or without a playerKey of
\* its own, and one snapshot whose second side has no combatant
TurnStates ==
    {Battle(Player(<<Pokemon("Garchomp", k[1], h1, MaxHp, spe)>>),
            Player(<<Pokemon("Landorus", k[2], h2, MaxHp, 1)>>),
            tr) :
        h1 \in 1 .. MaxHp, h2 \in 1 .. MaxHp, spe \in {1, 2},
        k \in {<<"p1", "p2">>, <<None, None>>}, tr \in BOOLEAN}
    \cup {Battle(Player(<<Pokemon("Garchomp", "p1", MaxHp, MaxHp, 2)>>),
                 Player(<<>>), FALSE)}

\* <<playerKey, opponentKey>> arguments; "p3" is no side of the snapshot
TurnKeys == {<<"p1", "p2">>, <<"p2", "p1">>, <<"p1", "p3">>}

TurnPlayerMoves == {"Tackle", "Quick Attack", "Brave Bird", "Nonexistent"}
TurnOpponentMoves == {"Tackle", "Giga Drain", "Swords Dance"}

\* what the damage calculator may return: nothing, 1 damage, a knockout
TurnMatchups == {NoRange, Range(1, 2), Range(MaxHp, MaxHp + 1)}

TurnInputs ==
    [phase        : {"input"},
     battleState  : TurnStates,
     keys         : TurnKeys,
     playerMove   : TurnPlayerMoves,
     opponentMove : TurnOpponentMoves,
     draw         : BOOLEAN,
     m1           : TurnMatchups,
     m2           : TurnMatchups]

InitTurn ==
    /\ playAhead = <<>>
    /\ calcdex = NullBattleState
    /\ last = NoOp
    /\ \E in \in TurnInputs :
        turn = [in |-> in, result |-> [threw |-> FALSE, pending |-> TRUE]]

SimulateTurn ==
    /\ turn.in.phase = "input"
    /\ turn' = [in     |-> [turn.in EXCEPT !.phase = "done"],
                result |-> simulateTurn(turn.in.battleState,
                              turn.in.keys[1], turn.in.keys[2],
                              turn.in.playerMove, turn.in.opponentMove,
                              turn.in.draw, turn.in.m1, turn.in.m2)]
    /\ UNCHANGED <<playAhead, calcdex, last>>

NextTurn == SimulateTurn

SpecTurn == InitTurn /\ [][NextTurn]_vars

(***************************************************************************)
(* determineMoveOrder as a function of its inputs.                         *)
(***************************************************************************)
\* largest effective speed of a combatant in the enumerated inputs
MaxSpeed == 2

\* effective speeds: the stats record without a speed, and 1 .. MaxSpeed
OrderSpeeds == {Undefined} \cup (1 .. MaxSpeed)

\* moves of priority 0 and 1, and a move the dex does not hold
OrderMoves == {"Tackle", "Quick Attack", "Nonexistent"}

OrderInputs ==
    [phase     : {"input"},
     p1Pokemon : {Pokemon("Garchomp", k, MaxHp, MaxHp, s) :
                    k \in {"p1", None}, s \in OrderSpeeds},
     p2Pokemon : {Pokemon("Landorus", "p2", MaxHp, MaxHp, s) : s \in OrderSpeeds},
     p1Move    : OrderMoves,
     p2Move    : OrderMoves,
     field     : [isTrickRoom : BOOLEAN],
     draw      : BOOLEAN]

InitOrder ==
    /\ playAhead = <<>>
    /\ calcdex = NullBattleState
    /\ last = NoOp
    /\ \E in \in OrderInputs :
        turn = [in |-> in, result |-> [pending |-> TRUE]]

DetermineMoveOrder ==
    /\ turn.in.phase = "input"
    /\ turn' = [in     |-> [turn.in EXCEPT !.phase = "ordered"],
                result |-> determineMoveOrder(turn.in.p1Pokemon, turn.in.p2Pokemon,
                              turn.in.p1Move, turn.in.p2Move,
                              turn.in.field, turn.in.draw)]
    /\ UNCHANGED <<playAhead, calcdex, last>>

NextOrder == DetermineMoveOrder

SpecOrder == InitOrder /\ [][NextOrder]_vars

(***************************************************************************)
(* applyMoveEffects as a function of its inputs.                           *)
(***************************************************************************)
\* a damage value given as a number instead of a range
Scalar(value) == [kind |-> "number", value |-> value]

\* <<hp, maxhp>> of a combatant: fainted, hurt, healthy, or both undefined
ApplyHealths == {<<h, MaxHp>> : h \in 0 .. MaxHp} \cup {<<Undefined, Undefined>>}

\* snapshots given to applyMoveEffects, one of them with no combatant on p2
ApplyStates ==
    {Battle(Player(<<Pokemon("Garchomp", "p1", h1[1], h1[2], 2)>>),
            Player(<<Pokemon("Landorus", "p2", h2[1], h2[2], 1)>>),
            FALSE) : h1 \in ApplyHealths, h2 \in ApplyHealths}
    \cup {Battle(Player(<<Pokemon("Garchomp", "p1", MaxHp, MaxHp, 2)>>),
                 Player(<<>>), FALSE)}

\* <<userPlayerKey, targetPlayerKey>> arguments; "p3" is no side of the snapshot
ApplyKeys == {<<"p1", "p2">>, <<"p2", "p1">>, <<"p1", "p3">>, <<"p3", "p1">>}

ApplyMoves == {"Tackle", "Brave Bird", "Giga Drain", "Swords Dance", "Nonexistent"}

\* what the damage calculator may return: nothing, no damage, 1 damage, a
\* knockout of a combatant with MaxHp, 7 damage, and 1 damage as a number
ApplyMatchups ==
    {NoRange, Range(0, 0), Range(1, 2), Range(MaxHp, MaxHp + 1), Range(7, 8),
     Scalar(1)}

ApplyInputs ==
    [phase       : {"input"},
     battleState : ApplyStates,
     keys        : ApplyKeys,
     move        : ApplyMoves,
     matchup     : ApplyMatchups]

InitApply ==
    /\ playAhead = <<>>
    /\ calcdex = NullBattleState
    /\ last = NoOp
    /\ \E in \in ApplyInputs :
        turn = [in |-> in, result |-> [pending |-> TRUE]]

ApplyMoveEffects ==
    /\ turn.in.phase = "input"
    /\ turn' = [in     |-> [turn.in EXCEPT !.phase = "applied"],
                result |-> applyMoveEffects(turn.in.battleState,
                              turn.in.keys[1], turn.in.keys[2],
                              turn.in.move, turn.in.matchup)]
    /\ UNCHANGED <<playAhead, calcdex, last>>

NextApply == ApplyMoveEffects

SpecApply == InitApply /\ [][NextApply]_vars

(***************************************************************************)
(* The store with two battle ids: the reducers and executeSimulation       *)
(* addressed to either id, with the counters and the queues of the two     *)
(* sessions bounded together.                                              *)
(***************************************************************************)
\* advanceTurn is exercised while the counters of all sessions sum to less
StoreMaxTurns == 1
\* addPendingDecision is exercised while the queues of all sessions hold less
StoreMaxQueue == 1

StoreIds == {"b1", "b2"}

\* the damage calculator's answer in the two-session store: a knockout
StoreMatchups == {Range(MaxHp, MaxHp + 1)}

StoreDecisions == {[type |-> "switch-in", playerKey |-> "p1"]}

RECURSIVE TotalTurns(_, _)
\* the sum of simulatedTurns over the sessions stored under ids
TotalTurns(state, ids) ==
    IF ids = {} THEN 0
    ELSE LET id == CHOOSE x \in ids : TRUE
         IN  state[id].simulatedTurns + TotalTurns(state, ids \ {id})

RECURSIVE TotalQueued(_, _)
\* the number of pending decisions over the sessions stored under ids
TotalQueued(state, ids) ==
    IF ids = {} THEN 0
    ELSE LET id == CHOOSE x \in ids : TRUE
         IN  Len(state[id].pendingDecisions) + TotalQueued(state, ids \ {id})

NextStore ==
    \/ \E b \in StoreIds, bs \in {calcdex, NullBattleState} : InitSimulation(b, bs)
    \/ \E b \in StoreIds, m \in PlayerMoves : SetPlayerMove(b, m)
    \/ \E b \in StoreIds, m \in OpponentMoves : SetOpponentMove(b, m)
    \/ \E b \in StoreIds, m1 \in StoreMatchups, m2 \in StoreMatchups :
            ExecuteSimulation(b, "p2", TRUE, m1, m2)
    \/ \E b \in StoreIds, d \in StoreDecisions :
            /\ TotalQueued(playAhead, DOMAIN playAhead) < StoreMaxQueue
            /\ AddPendingDecision(b, d)
    \/ \E b \in StoreIds, i \in 0 .. StoreMaxQueue : ResolvePendingDecision(b, i)
    \/ \E b \in StoreIds :
            /\ TotalTurns(playAhead, DOMAIN playAhead) < StoreMaxTurns
            /\ AdvanceTurn(b)
    \/ \E b \in StoreIds : ResetSimulation(b)
    \/ \E ids \in SUBSET StoreIds : Destroy(ids)

SpecStore == Init /\ [][NextStore]_vars

(***************************************************************************)
(* One session with a choice of moves: a plain move or one that forces a   *)
(* switch for the player, a move with a chance effect for the opponent.    *)
(***************************************************************************)
MovesPlayerMoves == {"Tackle", "U-turn"}
MovesOpponentMoves == {"Scald"}

NextMoves ==
    \/ \E b \in BattleIds : InitSimulation(b, calcdex)
    \/ \E b \in BattleIds, m \in MovesPlayerMoves : SetPlayerMove(b, m)
    \/ \E b \in BattleIds, m \in MovesOpponentMoves : SetOpponentMove(b, m)
    \/ \E b \in BattleIds, m1 \in SessionMatchups, m2 \in SessionMatchups :
            ExecuteSimulation(b, "p2", TRUE, m1, m2)
    \/ \E b \in BattleIds, d \in StoreDecisions :
            /\ TotalQueued(playAhead, DOMAIN playAhead) < StoreMaxQueue
            /\ AddPendingDecision(b, d)
    \/ \E b \in BattleIds, i \in 0 .. StoreMaxQueue : ResolvePendingDecision(b, i)
    \/ \E b \in BattleIds :
            /\ TotalTurns(playAhead, DOMAIN playAhead) < StoreMaxTurns
            /\ AdvanceTurn(b)
    \/ \E b \in BattleIds : ResetSimulation(b)

SpecMoves == Init /\ [][NextMoves]_vars

(***************************************************************************)
(* Snapshots as objects.  A heap is a sequence of objects and a reference  *)
(* is an index into it: a battle state object holds the references of its  *)
(* two player objects, and a player object holds its pokemon array.        *)
(* applyMoveEffects, simulateTurn and initSimulation are modelled by what  *)
(* they allocate and which objects they write.                             *)
(***************************************************************************)
\* calls made on the heap in one behaviour
MaxCalls == 3

\* the heap holding one battle state: its players at 1 and 2, itself at 3
HeapOf(battleState) ==
    <<battleState.p1, battleState.p2,
      [p1 |-> 1, p2 |-> 2, field |-> battleState.field]>>

\* the contents of the battle state a reference points to
Deref(heap, ref) ==
    [p1    |-> heap[heap[ref].p1],
     p2    |-> heap[heap[ref].p2],
     field |-> heap[ref].field]

\* cloneBattleState(battleState): new player objects and a new battle state
\* object holding them
cloneOnHeap(heap, ref) ==
    [heap |-> heap \o <<heap[heap[ref].p1], heap[heap[ref].p2],
                        [p1    |-> Len(heap) + 1,
                         p2    |-> Len(heap) + 2,
                         field |-> heap[ref].field]>>,
     ref  |-> Len(heap) + 3]

\* userPlayer.pokemon[userIndex] = ..., targetPlayer.pokemon[targetIndex] = ...:
\* the player objects of ref are left holding the players of battleState
WritePlayers(heap, ref, battleState) ==
    [heap EXCEPT ![heap[ref].p1] = battleState.p1,
                 ![heap[ref].p2] = battleState.p2]

\* applyMoveEffects writing the players of its argument, without a clone
applyMoveEffectsInPlace(heap, ref, userPlayerKey, targetPlayerKey, move, matchupResult) ==
    LET result == applyMoveEffects(Deref(heap, ref), userPlayerKey,
                                   targetPlayerKey, move, matchupResult)
    IN  [heap   |-> WritePlayers(heap, ref, result.battleState),
         ref    |-> ref,
         result |-> result]

\* applyMoveEffects: the clone it makes, the writes to the clone's players,
\* and the reference it returns
applyMoveEffectsOnHeap(heap, ref, userPlayerKey, targetPlayerKey, move, matchupResult) ==
    LET newBattleState == cloneOnHeap(heap, ref)
        result == applyMoveEffects(Deref(newBattleState.heap, newBattleState.ref),
                                   userPlayerKey, targetPlayerKey, move,
                                   matchupResult)
    IN  [heap   |-> WritePlayers(newBattleState.heap, newBattleState.ref,
                                 result.battleState),
         ref    |-> newBattleState.ref,
         result |-> result]

\* simulateTurn: its own clone, then one clone per applied move; ref 0 stands
\* for no snapshot returned (the call threw)
simulateTurnOnHeap(heap, ref, playerKey, opponentKey, playerMove, opponentMove, p1GoesFirstDraw, firstMatchup, secondMatchup) ==
    LET current == cloneOnHeap(heap, ref)
        currentBattleState == Deref(current.heap, current.ref)
    IN
    IF \/ ~HasPlayer(currentBattleState, playerKey)
       \/ ~HasPlayer(currentBattleState, opponentKey)
    THEN [heap |-> current.heap, ref |-> current.ref]
    ELSE IF \/ ActivePokemon(currentBattleState, playerKey) = NullPokemon
            \/ ActivePokemon(currentBattleState, opponentKey) = NullPokemon
    THEN [heap |-> current.heap, ref |-> current.ref]
    ELSE
    LET moveOrder == determineMoveOrder(
                        ActivePokemon(currentBattleState, playerKey),
                        ActivePokemon(currentBattleState, opponentKey),
                        playerMove, opponentMove, currentBattleState.field,
                        p1GoesFirstDraw)
    IN
    IF \/ ~HasPlayer(currentBattleState, moveOrder.firstPlayerKey)
       \/ ~HasPlayer(currentBattleState, moveOrder.secondPlayerKey)
    THEN [heap |-> current.heap, ref |-> 0]
    ELSE
    LET first == applyMoveEffectsOnHeap(current.heap, current.ref,
                    moveOrder.firstPlayerKey, moveOrder.secondPlayerKey,
                    moveOrder.firstMove, firstMatchup)
    IN
    IF StopsAfterFirst(first.result)
    THEN [heap |-> first.heap, ref |-> first.ref]
    ELSE
    LET second == applyMoveEffectsOnHeap(first.heap, first.ref,
                    moveOrder.secondPlayerKey, moveOrder.firstPlayerKey,
                    moveOrder.secondMove, secondMatchup)
    IN  [heap |-> second.heap, ref |-> second.ref]

HeapKeys == {<<"p1", "p2">>, <<"p2", "p1">>}
HeapMoves == {"Tackle", "Brave Bird"}

\* the record of a call: the heap and the references known before it, the
\* heap after it, the references known after it, the live snapshot's
\* reference, the session's working snapshot (0: none) and the reference the
\* call returned (0: none)
HeapStep(op, heap, returned, working) ==
    [phase    |-> "heap",
     op       |-> op,
     calls    |-> turn.calls + 1,
     prev     |-> turn.heap,
     known    |-> turn.refs,
     heap     |-> heap,
     refs     |-> IF returned = 0 THEN turn.refs ELSE turn.refs \cup {returned},
     live     |-> turn.live,
     working  |-> working,
     returned |-> returned]

InitHeap ==
    /\ playAhead = <<>>
    /\ calcdex \in LiveStates
    /\ last = NoOp
    /\ turn = [phase |-> "heap", op |-> "none", calls |-> 0,
               prev |-> HeapOf(calcdex), known |-> {3},
               heap |-> HeapOf(calcdex), refs |-> {3},
               live |-> 3, working |-> 0, returned |-> 0]

\* initSimulation: the session's working snapshot is a clone of the live one
HeapStart ==
    /\ turn.calls < MaxCalls
    /\ LET c == cloneOnHeap(turn.heap, turn.live)
       IN  turn' = HeapStep("initSimulation", c.heap, c.ref, c.ref)
    /\ UNCHANGED <<playAhead, calcdex, last>>

\* applyMoveEffects called on a snapshot the caller holds
HeapApply(ref, keys, move, matchup) ==
    /\ turn.calls < MaxCalls
    /\ LET r == applyMoveEffectsOnHeap(turn.heap, ref, keys[1], keys[2],
                                       move, matchup)
       IN  turn' = HeapStep("applyMoveEffects", r.heap, r.ref, turn.working)
    /\ UNCHANGED <<playAhead, calcdex, last>>

\* executeSimulation: simulateTurn on the working snapshot, whose result
\* becomes the working snapshot
HeapExecute(keys, playerMove, opponentMove, m1, m2) ==
    /\ turn.calls < MaxCalls
    /\ turn.working # 0
    /\ LET r == simulateTurnOnHeap(turn.heap, turn.working, keys[1], keys[2],
                                   playerMove, opponentMove, TRUE, m1, m2)
       IN  turn' = HeapStep("simulateTurn", r.heap, r.ref,
                            IF r.ref = 0 THEN turn.working ELSE r.ref)
    /\ UNCHANGED <<playAhead, calcdex, last>>

NextHeap ==
    \/ HeapStart
    \/ \E ref \in turn.refs, keys \in HeapKeys, move \in HeapMoves,
          m \in SessionMatchups : HeapApply(ref, keys, move, m)
    \/ \E keys \in HeapKeys, pm \in HeapMoves, om \in OpponentMoves,
          m1 \in SessionMatchups, m2 \in SessionMatchups :
            HeapExecute(keys, pm, om, m1, m2)

SpecHeap == InitHeap /\ [][NextHeap]_vars

(***************************************************************************)
(* One session whose player selects a recoil move or a drain move; a hit   *)
(* deals 1 damage or none.                                                 *)
(***************************************************************************)
HealthPlayerMoves == {"Brave Bird", "Giga Drain"}
HealthOpponentMoves == {"Tackle"}

\* what the damage calculator returns: no damage range, or 1 damage
HealthMatchups == {NoRange, Range(1, 2)}

NextHealth ==
    \/ \E b \in BattleIds : InitSimulation(b, calcdex)
    \/ \E b \in BattleIds, m \in HealthPlayerMoves : SetPlayerMove(b, m)
    \/ \E b \in BattleIds, m \in HealthOpponentMoves : SetOpponentMove(b, m)
    \/ \E b \in BattleIds, m1 \in HealthMatchups, m2 \in HealthMatchups :
            ExecuteSimulation(b, "p2", TRUE, m1, m2)
    \/ \E b \in BattleIds :
            /\ TotalTurns(playAhead, DOMAIN playAhead) < StoreMaxTurns
            /\ AdvanceTurn(b)

SpecHealth == Init /\ [][NextHealth]_vars

(***************************************************************************)
(* applyMoveEffects on moves whose metadata declares more than damage:     *)
(* recoil together with drain, a stat change, a status, a weather, a       *)
(* self-switch, a chance effect.  The combatants carry a status and a stat *)
(* stage, the second side has a combatant on the bench, and the field      *)
(* holds a weather.                                                        *)
(***************************************************************************)
EffectMoves ==
    {"Drain Crash", "Swords Dance", "Thunder Wave", "Rain Dance", "U-turn", "Scald"}

\* a combatant with a status condition and an attack stage
WithConditions(pokemon, status, atk) ==
    pokemon @@ [status |-> status, boosts |-> [atk |-> atk]]

\* a snapshot whose field also holds a weather
WithWeather(battleState, weather) ==
    [battleState EXCEPT !.field = @ @@ [weather |-> weather]]

EffectStates ==
    {WithWeather(
        Battle(Player(<<WithConditions(Pokemon("Garchomp", "p1", h1[1], h1[2], 2),
                                       None, atk)>>),
               Player(<<WithConditions(Pokemon("Landorus", "p2", h2[1], h2[2], 1),
                                       status, 0),
                        WithConditions(Pokemon("Rotom", "p2", 1, MaxHp, 1),
                                       "par", 1)>>),
               FALSE),
        weather) :
        h1 \in ApplyHealths, h2 \in ApplyHealths, atk \in {0, 1},
        status \in {None, "brn"}, weather \in {None, "Sun"}}

EffectKeys == {<<"p1", "p2">>, <<"p2", "p1">>}

\* what the damage calculator may return: nothing, 1 damage, 7 damage
EffectMatchups == {NoRange, Range(1, 2), Range(7, 8)}

EffectInputs ==
    [phase       : {"input"},
     battleState : EffectStates,
     keys        : EffectKeys,
     move        : EffectMoves,
     matchup     : EffectMatchups]

InitEffects ==
    /\ playAhead = <<>>
    /\ calcdex = NullBattleState
    /\ last = NoOp
    /\ \E in \in EffectInputs :
        turn = [in |-> in, result |-> [pending |-> TRUE]]

SpecEffects == InitEffects /\ [][NextApply]_vars

(***************************************************************************)
(* One session started from a live battle state that may have a side       *)
(* without a combatant, with the engine call of each execute on record.    *)
(***************************************************************************)
\* live battle states: both sides with a combatant, or p2 with none
ErrorStates ==
    LiveStates
    \cup {Battle(Player(<<Pokemon("Garchomp", "p1", MaxHp, MaxHp, 2)>>),
                 Player(<<>>), FALSE)}

InitErrors ==
    /\ playAhead = <<>>
    /\ calcdex \in ErrorStates
    /\ last = NoOp
    /\ turn = Idle

\* executeSimulation, keeping what it passed to simulateTurn and what
\* simulateTurn returned
ExecuteTraced(battleId, opponentKey, draw, m1, m2) ==
    LET playAheadState == ContextState(playAhead, battleId) IN
    /\ playAhead' = executeSimulation(playAhead, battleId, calcdex,
                                      "p1", opponentKey, draw, m1, m2)
    /\ last' = Op("executeSimulation", battleId, Undefined,
                  canExecute(playAheadState), FALSE)
    /\ turn' = IF canExecute(playAheadState)
               THEN [phase       |-> "executed",
                     battleState |-> BattleStateToUse(playAheadState, calcdex),
                     playerKey   |-> "p1",
                     opponentKey |-> opponentKey,
                     result      |-> ExecuteResult(playAheadState, calcdex, "p1",
                                        opponentKey, draw, m1, m2)]
               ELSE turn
    /\ UNCHANGED calcdex

NextErrors ==
    \/ \E b \in BattleIds : InitSimulation(b, calcdex)
    \/ \E b \in BattleIds, m \in MovesPlayerMoves : SetPlayerMove(b, m)
    \/ \E b \in BattleIds, m \in MovesOpponentMoves : SetOpponentMove(b, m)
    \/ \E b \in BattleIds, k \in OpponentKeys,
          m1 \in SessionMatchups, m2 \in SessionMatchups :
            ExecuteTraced(b, k, TRUE, m1, m2)
    \/ \E b \in BattleIds :
            /\ TotalTurns(playAhead, DOMAIN playAhead) < StoreMaxTurns
            /\ AdvanceTurn(b)
    \/ \E b \in BattleIds : ResetSimulation(b)

SpecErrors == InitErrors /\ [][NextErrors]_vars

(***************************************************************************)
(* The reducers dispatched one by one on a store of two sessions, with     *)
(* the empty id among the ids given.                                       *)
(***************************************************************************)
DispatchIds == StoreIds \cup {""}

\* the payloads of updateSimulatedState: what simulateTurn returns for the
\* live battle state
DispatchResults ==
    {simulateTurn(calcdex, "p1", "p2", "Tackle", "Quick Attack", TRUE, m, m) :
        m \in StoreMatchups}

UpdateSimulatedState(battleId, simulatedBattleState, turnResults) ==
    /\ playAhead' = updateSimulatedState(playAhead, battleId,
                                         simulatedBattleState, turnResults)
    /\ last' = Op("updateSimulatedState", battleId, Undefined, FALSE, TRUE)
    /\ UNCHANGED <<calcdex, turn>>

NextDispatch ==
    \/ \E b \in DispatchIds, bs \in {calcdex, NullBattleState} : InitSimulation(b, bs)
    \/ \E b \in DispatchIds, m \in PlayerMoves : SetPlayerMove(b, m)
    \/ \E b \in DispatchIds, m \in OpponentMoves : SetOpponentMove(b, m)
    \/ \E b \in DispatchIds, result \in DispatchResults :
            UpdateSimulatedState(b, result.battleState, result.moveResults)
    \/ \E b \in DispatchIds, d \in StoreDecisions :
            /\ TotalQueued(playAhead, DOMAIN playAhead) < StoreMaxQueue
            /\ AddPendingDecision(b, d)
    \/ \E b \in DispatchIds, i \in 0 .. StoreMaxQueue : ResolvePendingDecision(b, i)
    \/ \E b \in DispatchIds :
            /\ TotalTurns(playAhead, DOMAIN playAhead) < StoreMaxTurns
            /\ AdvanceTurn(b)
    \/ \E b \in DispatchIds : ResetSimulation(b)

SpecDispatch == Init /\ [][NextDispatch]_vars

(***************************************************************************)
(* One session whose queue is filled after an execute and then resolved    *)
(* from the head, nothing being enqueued meanwhile, until the caller       *)
(* advances.  turn keeps the queue the resolving started from and the      *)
(* number of resolve steps taken since.                                    *)
(***************************************************************************)
Resolving == turn.phase = "resolving"

\* resolvePendingDecision at index 0; the first one on a session holding a
\* turn result and a non-empty queue starts the count
ResolveHead(battleId) ==
    /\ IsActive(playAhead, battleId)
    /\ playAhead[battleId].turnResults # <<>>
    /\ playAhead[battleId].pendingDecisions # <<>>
    /\ playAhead' = resolvePendingDecision(playAhead, battleId, 0)
    /\ last' = Op("resolvePendingDecision", battleId, 0, FALSE, FALSE)
    /\ turn' = IF Resolving
               THEN [turn EXCEPT !.steps = @ + 1]
               ELSE [phase |-> "resolving",
                     queue |-> playAhead[battleId].pendingDecisions,
                     steps |-> 1]
    /\ UNCHANGED calcdex

\* advanceTurn by a caller that has resolved from the head
AdvanceResolved(battleId) ==
    /\ Resolving
    /\ IsActive(playAhead, battleId)
    /\ playAhead' = advanceTurn(playAhead, battleId)
    /\ last' = Op("advanceTurn", battleId, Undefined, FALSE, FALSE)
    /\ turn' = [turn EXCEPT !.phase = "advanced"]
    /\ UNCHANGED calcdex

NextDrain ==
    \/ \E b \in BattleIds : ~Resolving /\ InitSimulation(b, calcdex)
    \/ \E b \in BattleIds, m \in PlayerMoves : ~Resolving /\ SetPlayerMove(b, m)
    \/ \E b \in BattleIds, m \in OpponentMoves : ~Resolving /\ SetOpponentMove(b, m)
    \/ \E b \in BattleIds, m1 \in SessionMatchups, m2 \in SessionMatchups :
            ~Resolving /\ ExecuteSimulation(b, "p2", TRUE, m1, m2)
    \/ \E b \in BattleIds, d \in Decisions : ~Resolving /\ AddPendingDecision(b, d)
    \/ \E b \in BattleIds : ResolveHead(b)
    \/ \E b \in BattleIds :
            /\ TotalTurns(playAhead, DOMAIN playAhead) < MaxTurns
            /\ AdvanceResolved(b)

SpecDrain == Init /\ [][NextDrain]_vars

(***************************************************************************)
(* determineMoveOrder called twice on the same two combatants and field:   *)
(* the second call draws anew and may be given other moves.                *)
(***************************************************************************)
RepeatInputs ==
    [in     : OrderInputs,
     p1Move : OrderMoves,
     p2Move : OrderMoves,
     draw   : BOOLEAN]

InitRepeat ==
    /\ playAhead = <<>>
    /\ calcdex = NullBattleState
    /\ last = NoOp
    /\ \E r \in RepeatInputs :
        turn = [in     |-> r.in,
                result |-> [pending |-> TRUE],
                again  |-> [p1Move |-> r.p1Move, p2Move |-> r.p2Move,
                            draw |-> r.draw, result |-> [pending |-> TRUE]]]

FirstCall ==
    /\ turn.in.phase = "input"
    /\ turn' = [turn EXCEPT
                  !.in.phase = "ordered",
                  !.result = determineMoveOrder(turn.in.p1Pokemon, turn.in.p2Pokemon,
                                turn.in.p1Move, turn.in.p2Move,
                                turn.in.field, turn.in.draw)]
    /\ UNCHANGED <<playAhead, calcdex, last>>

SecondCall ==
    /\ turn.in.phase = "ordered"
    /\ turn' = [turn EXCEPT
                  !.in.phase = "repeated",
                  !.again.result = determineMoveOrder(turn.in.p1Pokemon, turn.in.p2Pokemon,
                                      turn.again.p1Move, turn.again.p2Move,
                                      turn.in.field, turn.again.draw)]
    /\ UNCHANGED <<playAhead, calcdex, last>>

NextRepeat == FirstCall \/ SecondCall

SpecRepeat == InitRepeat /\ [][NextRepeat]_vars

(***************************************************************************)
(* PlayAheadControls: what the controls render for the session of the      *)
(* battle.                                                                 *)
(***************************************************************************)
\* state?.active ?? false
isActive(playAheadState) ==
    /\ playAheadState # NullState
    /\ playAheadState.active

\* hasExecuted taking the array of outcomes itself for the test: "!![]"
hasExecutedAnyArray(playAheadState) ==
    playAheadState # NullState

\* !!playAheadState?.turnResults?.length
hasExecuted(playAheadState) ==
    /\ playAheadState # NullState
    /\ Len(playAheadState.turnResults) > 0

\* the 'Simulate Turn' button is rendered and not disabled
SimulateTurnEnabled(state, battleId) ==
    /\ isActive(ContextState(state, battleId))
    /\ canExecute(ContextState(state, battleId))

\* the 'Next Turn' button is rendered
NextTurnOffered(state, battleId) ==
    /\ isActive(ContextState(state, battleId))
    /\ hasExecuted(ContextState(state, battleId))

(***************************************************************************)
(* Properties.  Each reads the latest operation (last), the slice state it *)
(* was applied to (last.before) and the slice state it left (playAhead).   *)
(***************************************************************************)
IsPrefix(s, t) == Len(s) <= Len(t) /\ SubSeq(t, 1, Len(s)) = s

\* the latest operation addressed a session that was stored
WasStored == last.battleId \in DOMAIN last.before

\* that session before the operation, and after it
Pre == last.before[last.battleId]
Post == playAhead[last.battleId]

\* the ids stored before and after the latest operation
Kept == (DOMAIN last.before) \cap (DOMAIN playAhead)

\* C1: advanceTurn on an active session whose pendingDecisions is non-empty
\* is rejected: the slice state after it is the slice state before it.
C1_AdvanceRejectedWhileQueued ==
    (last.op = "advanceTurn" /\ WasStored /\ Pre.pendingDecisions # <<>>)
        => playAhead = last.before

\* C2: advanceTurn on a session with both moves selected (as every Resolved
\* session has) and an empty queue adds 1 to simulatedTurns, sets both moves
\* to none, empties turnResults, and appends to turnHistory one entry holding
\* the old counter + 1, both moves and the turn results; nothing else changes.
C2_AdvanceFromResolved ==
    (/\ last.op = "advanceTurn"
     /\ WasStored
     /\ Pre.playerMove # None
     /\ Pre.opponentMove # None
     /\ Pre.pendingDecisions = <<>>)
        => /\ DOMAIN playAhead = DOMAIN last.before
           /\ Post = [Pre EXCEPT
                        !.simulatedTurns = Pre.simulatedTurns + 1,
                        !.playerMove = None,
                        !.opponentMove = None,
                        !.turnResults = <<>>,
                        !.turnHistory = Append(Pre.turnHistory,
                            [turn         |-> Pre.simulatedTurns + 1,
                             playerMove   |-> Pre.playerMove,
                             opponentMove |-> Pre.opponentMove,
                             results      |-> Pre.turnResults])]

\* a second advanceTurn has acted on a Resolved session (both moves selected,
\* turn results stored by executeSimulation) whose queue was empty
C2_Witness ==
    /\ last.op = "advanceTurn"
    /\ WasStored
    /\ Pre.playerMove # None
    /\ Pre.opponentMove # None
    /\ Pre.turnResults # <<>>
    /\ Pre.pendingDecisions = <<>>
    /\ Pre.simulatedTurns = 1

\* C3: advanceTurn on an active session that holds no turn result (none was
\* stored since initSimulation or since the last advanceTurn) is rejected:
\* the slice state, and so the counter, is unchanged.
C3_AdvanceRejectedWithoutResult ==
    (last.op = "advanceTurn" /\ WasStored /\ Pre.turnResults = <<>>)
        => playAhead = last.before

\* C4: executeSimulation with the player's or the opponent's move not selected
\* (or with no session) does not call simulateTurn and leaves the slice state
\* unchanged.
C4_ExecuteRejectedWithoutBothMoves ==
    (/\ last.op = "executeSimulation"
     /\ \/ ~WasStored
        \/ Pre.playerMove = None
        \/ Pre.opponentMove = None)
        => ~last.called /\ playAhead = last.before

\* executeSimulation has acted on an active session with only one move selected
C4_Witness ==
    /\ last.op = "executeSimulation"
    /\ WasStored
    /\ Pre.playerMove # None
    /\ Pre.opponentMove = None

\* C5: resetSimulation on a stored session removes it (no snapshot, history
\* or queue is left under the id), and an initSimulation that creates a session
\* under an id with none starts with empty history, empty queue and counter 0.
C5_ResetReturnsToInactive ==
    /\ (last.op = "resetSimulation" /\ WasStored)
        => /\ last.battleId \notin DOMAIN playAhead
           /\ ContextState(playAhead, last.battleId) = NullState
    /\ (last.op = "initSimulation" /\ ~WasStored
            /\ last.battleId \in DOMAIN playAhead)
        => /\ Post.turnHistory = <<>>
           /\ Post.pendingDecisions = <<>>
           /\ Post.simulatedTurns = 0

\* resetSimulation has acted on a session with turn results, pending
\* decisions and a history
C5_Witness ==
    /\ last.op = "resetSimulation"
    /\ WasStored
    /\ Pre.turnResults # <<>>
    /\ Pre.pendingDecisions # <<>>
    /\ Pre.turnHistory # <<>>

\* C6: initSimulation with a battle id and a battle state stores under that id
\* a session with a copy of the battle state, counter 0, no move selected,
\* empty turn results, queue, history and errors; with an empty battle id or no
\* battle state it leaves the slice state unchanged.
C6_InitCreatesFreshSession ==
    last.op = "initSimulation"
        => IF last.battleId # "" /\ last.hasBattleState
           THEN /\ DOMAIN playAhead = (DOMAIN last.before) \cup {last.battleId}
                /\ \A id \in (DOMAIN playAhead) \ {last.battleId} :
                        playAhead[id] = last.before[id]
                /\ Post = [battleId             |-> last.battleId,
                           active               |-> TRUE,
                           simulatedTurns       |-> 0,
                           playerMove           |-> None,
                           opponentMove         |-> None,
                           simulatedBattleState |-> calcdex,
                           turnResults          |-> <<>>,
                           pendingDecisions     |-> <<>>,
                           turnHistory          |-> <<>>,
                           errors               |-> <<>>]
           ELSE playAhead = last.before

\* initSimulation has created a session under an id that had none
C6_Witness ==
    /\ last.op = "initSimulation"
    /\ last.battleId # ""
    /\ last.hasBattleState
    /\ ~WasStored

\* C7: no operation other than resetSimulation lowers simulatedTurns of a
\* session that is stored before and after it.
C7_CounterNeverDecreases ==
    \A id \in Kept :
        last.op # "resetSimulation"
            => playAhead[id].simulatedTurns >= last.before[id].simulatedTurns

\* C7 as amended: no operation other than resetSimulation and initSimulation
\* lowers simulatedTurns; initSimulation on a stored session sets it to 0.
C7_CounterDecreasesOnlyByRestart ==
    \A id \in Kept :
        /\ last.op \notin {"resetSimulation", "initSimulation"}
            => playAhead[id].simulatedTurns >= last.before[id].simulatedTurns
        /\ (/\ last.op = "initSimulation"
            /\ last.battleId = id
            /\ last.hasBattleState)
            => playAhead[id].simulatedTurns = 0

\* initSimulation has acted on a session whose counter was above 0
C7_Witness ==
    /\ last.op = "initSimulation"
    /\ last.hasBattleState
    /\ WasStored
    /\ Pre.simulatedTurns > 0
    /\ last.battleId \in DOMAIN playAhead

\* C8: after any operation other than resetSimulation, the turnHistory before
\* it is a prefix of the turnHistory after it.
C8_HistoryAppendOnly ==
    \A id \in Kept :
        last.op # "resetSimulation"
            => IsPrefix(last.before[id].turnHistory, playAhead[id].turnHistory)

\* C8 as amended: after any operation other than resetSimulation and
\* initSimulation the turnHistory before it is a prefix of the turnHistory
\* after it; initSimulation on a stored session empties the history.
C8_HistoryAppendOnlyExceptRestart ==
    \A id \in Kept :
        /\ last.op \notin {"resetSimulation", "initSimulation"}
            => IsPrefix(last.before[id].turnHistory, playAhead[id].turnHistory)
        /\ (/\ last.op = "initSimulation"
            /\ last.battleId = id
            /\ last.hasBattleState)
            => playAhead[id].turnHistory = <<>>

\* advanceTurn has appended a second entry to a history that held one
C8_Witness ==
    /\ last.op = "advanceTurn"
    /\ WasStored
    /\ Len(Pre.turnHistory) = 1
    /\ last.battleId \in DOMAIN playAhead
    /\ Len(Post.turnHistory) = 2

\* C9: every stored session has active = TRUE and a snapshot; an id with no
\* stored session has no state at all.
C9_ActiveIffSnapshot ==
    /\ \A id \in DOMAIN playAhead :
        /\ playAhead[id].active = TRUE
        /\ playAhead[id].simulatedBattleState # NullBattleState
    /\ \A id \in IdInputs \ DOMAIN playAhead :
        ContextState(playAhead, id) = NullState

\* a session is stored whose snapshot was replaced by executeSimulation
C9_Witness ==
    /\ last.op = "executeSimulation"
    /\ last.called
    /\ last.battleId \in DOMAIN playAhead
    /\ Post.active
    /\ Post.simulatedBattleState # calcdex

\* the order simulateTurn resolves for the latest inputs, and the result of
\* applying the first move of that order to the input snapshot
TurnOrder ==
    determineMoveOrder(
        ActivePokemon(turn.in.battleState, turn.in.keys[1]),
        ActivePokemon(turn.in.battleState, turn.in.keys[2]),
        turn.in.playerMove, turn.in.opponentMove,
        turn.in.battleState.field, turn.in.draw)

FirstApplied ==
    applyMoveEffects(turn.in.battleState, TurnOrder.firstPlayerKey,
                     TurnOrder.secondPlayerKey, TurnOrder.firstMove, turn.in.m1)

\* simulateTurn returned after applying at least one move
TurnApplied ==
    /\ turn.in.phase = "done"
    /\ ~turn.result.threw
    /\ turn.result.moveResults # <<>>

\* C10: when the first application reports the target or the user fainted,
\* simulateTurn returns exactly one move result and the snapshot that the
\* first application produced.
C10_FirstFaintEndsTurn ==
    (TurnApplied /\ (FirstApplied.targetFainted \/ FirstApplied.userFainted))
        => /\ Len(turn.result.moveResults) = 1
           /\ turn.result.battleState = FirstApplied.battleState

\* simulateTurn has returned for a turn whose first move made its user faint
C10_Witness ==
    /\ TurnApplied
    /\ FirstApplied.userFainted
    /\ ~FirstApplied.targetFainted

(***************************************************************************)
(* Properties of determineMoveOrder (SpecOrder).                           *)
(***************************************************************************)
\* determineMoveOrder has returned for the latest inputs
Ordered == turn.in.phase = "ordered"

\* priority of each side's move as the dex gives it (0 for an unknown move)
P1Priority == IF turn.in.p1Move \in DOMAIN Dex THEN Dex[turn.in.p1Move].priority ELSE 0
P2Priority == IF turn.in.p2Move \in DOMAIN Dex THEN Dex[turn.in.p2Move].priority ELSE 0

\* effective speed of each side (0 when the stats record holds none)
P1Speed == IF turn.in.p1Pokemon.spe = Undefined THEN 0 ELSE turn.in.p1Pokemon.spe
P2Speed == IF turn.in.p2Pokemon.spe = Undefined THEN 0 ELSE turn.in.p2Pokemon.spe

\* the order is: side 1 first / side 2 first
P1OrderedFirst ==
    /\ turn.result.firstPlayerKey = KeyOf(turn.in.p1Pokemon, "p1")
    /\ turn.result.secondPlayerKey = KeyOf(turn.in.p2Pokemon, "p2")
    /\ turn.result.firstMove = turn.in.p1Move
    /\ turn.result.secondMove = turn.in.p2Move

P2OrderedFirst ==
    /\ turn.result.firstPlayerKey = KeyOf(turn.in.p2Pokemon, "p2")
    /\ turn.result.secondPlayerKey = KeyOf(turn.in.p1Pokemon, "p1")
    /\ turn.result.firstMove = turn.in.p2Move
    /\ turn.result.secondMove = turn.in.p1Move

\* C11: when the two moves' priorities differ, the side with the higher
\* priority is ordered first with reason "priority", whatever the speeds and
\* the trick-room flag, and firstPriority/secondPriority and
\* firstSpeed/secondSpeed are those of the side ordered first/second.
C11_HigherPriorityFirst ==
    (Ordered /\ P1Priority # P2Priority)
        => /\ turn.result.reason = "priority"
           /\ IF P1Priority > P2Priority
              THEN /\ P1OrderedFirst
                   /\ turn.result.firstPriority = P1Priority
                   /\ turn.result.secondPriority = P2Priority
                   /\ turn.result.firstSpeed = P1Speed
                   /\ turn.result.secondSpeed = P2Speed
              ELSE /\ P2OrderedFirst
                   /\ turn.result.firstPriority = P2Priority
                   /\ turn.result.secondPriority = P1Priority
                   /\ turn.result.firstSpeed = P2Speed
                   /\ turn.result.secondSpeed = P1Speed

\* the slower side was ordered first by its priority, with trick room off
C11_Witness ==
    /\ Ordered
    /\ P1Priority > P2Priority
    /\ P1Speed < P2Speed
    /\ ~turn.in.field.isTrickRoom
    /\ turn.result.firstMove = turn.in.p1Move

\* C12: with equal priorities and unequal speeds, the faster side is ordered
\* first with reason "speed" when trick room is off, and the slower side is
\* ordered first with reason "trick-room" when it is on.
C12_SpeedDecidesEqualPriority ==
    (Ordered /\ P1Priority = P2Priority /\ P1Speed # P2Speed)
        => IF turn.in.field.isTrickRoom
           THEN /\ turn.result.reason = "trick-room"
                /\ IF P1Speed < P2Speed THEN P1OrderedFirst ELSE P2OrderedFirst
           ELSE /\ turn.result.reason = "speed"
                /\ IF P1Speed > P2Speed THEN P1OrderedFirst ELSE P2OrderedFirst

\* under trick room the slower second side was ordered first
C12_Witness ==
    /\ Ordered
    /\ P1Priority = P2Priority
    /\ P1Speed > P2Speed
    /\ turn.in.field.isTrickRoom
    /\ turn.result.firstMove = turn.in.p2Move
    /\ turn.result.reason = "trick-room"

(***************************************************************************)
(* Properties of applyMoveEffects (SpecApply).                             *)
(***************************************************************************)
\* applyMoveEffects has returned for the latest inputs
Applied == turn.in.phase = "applied"

\* both keys name a side of the input snapshot, both sides have an active
\* combatant, and the dex holds the move
ApplyValid ==
    /\ turn.in.keys[1] \in {"p1", "p2"}
    /\ turn.in.keys[2] \in {"p1", "p2"}
    /\ turn.in.battleState[turn.in.keys[1]].pokemon # <<>>
    /\ turn.in.battleState[turn.in.keys[2]].pokemon # <<>>
    /\ turn.in.move \in DOMAIN Dex

\* the actor and the target before the call and after it
ActorIn == ActivePokemon(turn.in.battleState, turn.in.keys[1])
TargetIn == ActivePokemon(turn.in.battleState, turn.in.keys[2])
ActorOut == ActivePokemon(turn.result.battleState, turn.in.keys[1])
TargetOut == ActivePokemon(turn.result.battleState, turn.in.keys[2])

\* health of a combatant, 100 when it holds none
Health(pokemon) == IF pokemon.hp = Undefined THEN 100 ELSE pokemon.hp
MaxHealth(pokemon) == IF pokemon.maxhp = Undefined THEN 100 ELSE pokemon.maxhp

\* the move is damaging and the matchup holds a range [lo, hi]
DamagingWithRange ==
    /\ Dex[turn.in.move].category # "Status"
    /\ turn.in.matchup.kind = "range"

\* floor((lo + hi) / 2)
Midpoint == (turn.in.matchup.lo + turn.in.matchup.hi) \div 2

\* max(1, floor(D * n / d)) for a fraction <<n, d>>
Share(fraction) ==
    IF (Midpoint * fraction[1]) \div fraction[2] >= 1
    THEN (Midpoint * fraction[1]) \div fraction[2] ELSE 1

\* the target's health after the damage stage, and the rest of the snapshot
\* for a move that has neither recoil nor drain
DamageApplied ==
    /\ Health(TargetOut) = Max(0, Health(TargetIn) - Midpoint)
    /\ (Dex[turn.in.move].recoil = <<>> /\ Dex[turn.in.move].drain = <<>>)
        => /\ ActorOut = ActorIn
           /\ turn.result.battleState.field = turn.in.battleState.field
           /\ \A f \in (DOMAIN TargetIn) \ {"hp", "dirtyHp"} :
                TargetOut[f] = TargetIn[f]

C14_RecoilAlwaysApplied ==
    (/\ Applied /\ ApplyValid /\ DamagingWithRange
     /\ Dex[turn.in.move].recoil # <<>>
     /\ Midpoint > 0)
        => /\ Health(ActorOut)
                = Max(0, Health(ActorIn) - Share(Dex[turn.in.move].recoil))
           /\ (Health(ActorOut) = 0) => turn.result.userFainted

\* C15: a move with a drain fraction that deals damage D > 0 sets the actor's
\* health to min(maxHealth, health + max(1, floor(D * f))).
C15_DrainAlwaysApplied ==
    (/\ Applied /\ ApplyValid /\ DamagingWithRange
     /\ Dex[turn.in.move].drain # <<>>
     /\ Midpoint > 0)
        => Health(ActorOut)
                = Min(MaxHealth(ActorIn),
                      Health(ActorIn) + Share(Dex[turn.in.move].drain))

\* C20: with an unknown actor or target key, a side without an active
\* combatant, or a move the dex does not hold, applyMoveEffects returns a
\* non-empty errors list, targetFainted and userFainted false, and a snapshot
\* equal to the input snapshot.
C20_FailureIsAValue ==
    (Applied /\ ~ApplyValid)
        => /\ turn.result.errors # <<>>
           /\ ~turn.result.targetFainted
           /\ ~turn.result.userFainted
           /\ turn.result.battleState = turn.in.battleState

\* a move the dex does not hold was applied, with a knockout range, between
\* two sides that both have an active combatant
C20_Witness ==
    /\ Applied
    /\ turn.in.keys = <<"p1", "p2">>
    /\ turn.in.battleState["p2"].pokemon # <<>>
    /\ turn.in.move \notin DOMAIN Dex
    /\ turn.in.matchup = Range(MaxHp, MaxHp + 1)
    /\ turn.result.errors # <<>>

(***************************************************************************)
(* Properties of the pending-decision queue (Spec).                        *)
(***************************************************************************)
\* C17: addPendingDecision on an active session appends the decision at the
\* tail of pendingDecisions and keeps the earlier entries in place;
\* resolvePendingDecision with 0 <= index < length removes exactly the entry
\* at that index, keeps the order of the others and shortens the queue by
\* one; neither changes anything else of the session.
C17_QueueIsFifo ==
    /\ (last.op = "addPendingDecision" /\ WasStored)
        => Post = [Pre EXCEPT !.pendingDecisions =
                        [i \in 1 .. Len(Pre.pendingDecisions) + 1 |->
                            IF i <= Len(Pre.pendingDecisions)
                            THEN Pre.pendingDecisions[i]
                            ELSE last.decision]]
    /\ (/\ last.op = "resolvePendingDecision"
        /\ WasStored
        /\ 0 <= last.index
        /\ last.index < Len(Pre.pendingDecisions))
        => Post = [Pre EXCEPT !.pendingDecisions =
                        [i \in 1 .. Len(Pre.pendingDecisions) - 1 |->
                            IF i <= last.index
                            THEN Pre.pendingDecisions[i]
                            ELSE Pre.pendingDecisions[i + 1]]]

\* the second of two different queued decisions was resolved
C17_Witness ==
    /\ last.op = "resolvePendingDecision"
    /\ WasStored
    /\ last.index = 1
    /\ Len(Pre.pendingDecisions) = 2
    /\ Pre.pendingDecisions[1] # Pre.pendingDecisions[2]
    /\ Post.pendingDecisions = <<Pre.pendingDecisions[1]>>

(***************************************************************************)
(* Properties of the two-session store (SpecStore).                        *)
(***************************************************************************)
\* the session stored under id is the same before and after the latest
\* operation, or there is none before and after it
Untouched(id) ==
    /\ id \in DOMAIN playAhead <=> id \in DOMAIN last.before
    /\ id \in Kept => playAhead[id] = last.before[id]

\* C18: an operation addressed to one battle id leaves the session of every
\* other id as it was, and destroy removes exactly the ids it is given.
C18_SessionsIsolated ==
    /\ last.op \notin {"none", "destroy"}
        => \A id \in StoreIds \ {last.battleId} : Untouched(id)
    /\ last.op = "destroy"
        => /\ DOMAIN playAhead = (DOMAIN last.before) \ last.battleIds
           /\ \A id \in StoreIds \ last.battleIds : Untouched(id)

\* executeSimulation stored a result in one session while another session,
\* holding a move and a queued decision, was stored beside it
C18_Witness ==
    /\ last.op = "executeSimulation"
    /\ last.called
    /\ WasStored
    /\ Post # Pre
    /\ \E id \in Kept \ {last.battleId} :
        /\ playAhead[id].playerMove # None
        /\ playAhead[id].pendingDecisions # <<>>

(***************************************************************************)
(* Properties of a session with a choice of moves (SpecMoves).             *)
(***************************************************************************)
\* executeSimulation has stored the result of a turn in the session
Executed ==
    /\ last.op = "executeSimulation"
    /\ last.called
    /\ WasStored
    /\ last.battleId \in DOMAIN playAhead

\* the queue holds a decision of the given type for the given side
Raised(queue, type, playerKey) ==
    \E i \in 1 .. Len(queue) :
        queue[i].type = type /\ queue[i].playerKey = playerKey

\* C19: once executeSimulation has stored a turn in which an applied move
\* forces a switch (selfSwitch) or has a chance effect (secondary), the
\* session's pendingDecisions holds a decision for it: "switch-in" or
\* "random-effect", for the side that used the move.
C19_DecisionRaisedByExecute ==
    Executed
        => \A i \in 1 .. Len(Post.turnResults) :
            LET r == Post.turnResults[i] IN
            /\ Dex[r.move].selfSwitch
                => Raised(Post.pendingDecisions, "switch-in", r.playerKey)
            /\ Dex[r.move].secondary > 0
                => Raised(Post.pendingDecisions, "random-effect", r.playerKey)

(***************************************************************************)
(* Properties of snapshots as objects (SpecHeap).                          *)
(***************************************************************************)
\* the objects a snapshot is made of
ObjectsOf(heap, ref) == {ref, heap[ref].p1, heap[ref].p2}

\* C16: a call of initSimulation, applyMoveEffects or simulateTurn leaves
\* every snapshot known before it, the caller's live battle state and the
\* snapshot passed in among them, with the contents it had, and the snapshot
\* it returns shares no object with any of them.
C16_InputsNeverMutated ==
    /\ Deref(turn.heap, turn.live) = calcdex
    /\ \A ref \in turn.known : Deref(turn.heap, ref) = Deref(turn.prev, ref)
    /\ turn.returned # 0
        => \A ref \in turn.known :
            ObjectsOf(turn.heap, turn.returned) \cap ObjectsOf(turn.heap, ref) = {}

\* applyMoveEffects was called on the session's working snapshot and returned
\* a snapshot with other contents
C16_Witness ==
    /\ turn.op = "applyMoveEffects"
    /\ turn.working # 0
    /\ turn.returned # 0
    /\ \E ref \in turn.known :
        /\ ref # turn.live
        /\ Deref(turn.heap, turn.returned) # Deref(turn.heap, ref)
        /\ Deref(turn.heap, ref) # calcdex

(***************************************************************************)
(* Properties of chained turns (Spec): every hit of a session deals 1      *)
(* damage and no selectable move has recoil or drain.                      *)
(***************************************************************************)
\* the health of a side's active combatant in a session's working snapshot
SideHealth(playAheadState, playerKey) ==
    Health(ActivePokemon(playAheadState.simulatedBattleState, playerKey))

RECURSIVE HitsOn(_, _)
\* the number of outcomes of a turn result whose actor is not the given side
HitsOn(turnResults, playerKey) ==
    IF turnResults = <<>> THEN 0
    ELSE (IF Head(turnResults).playerKey # playerKey THEN 1 ELSE 0)
            + HitsOn(Tail(turnResults), playerKey)

\* C21: an execute that runs the engine leaves each side with the health it
\* had in the session's working snapshot before the execute, less one per
\* hit recorded against it in the stored turn result (never the live health
\* less the hits), and advance leaves the working snapshot unchanged.
C21_TurnsChainOnWorkingSnapshot ==
    /\ (last.op = "executeSimulation" /\ WasStored /\ last.called)
        => \A k \in {"p1", "p2"} :
            SideHealth(Post, k)
                = Max(0, SideHealth(Pre, k) - HitsOn(Post.turnResults, k))
    /\ (last.op = "advanceTurn" /\ WasStored /\ last.battleId \in DOMAIN playAhead)
        => Post.simulatedBattleState = Pre.simulatedBattleState

\* an execute after an advance started from a working snapshot that differs
\* from the live battle state, and changed it
C21_Witness ==
    /\ last.op = "executeSimulation" /\ WasStored /\ last.called
    /\ Pre.simulatedTurns >= 1
    /\ Pre.simulatedBattleState # calcdex
    /\ Post.simulatedBattleState # Pre.simulatedBattleState
    /\ Post.turnResults # <<>>

(***************************************************************************)
(* Properties of the outcomes simulateTurn records (SpecTurn).             *)
(***************************************************************************)
\* C22: every outcome of a returned turn result records whether its target
\* and its actor fainted and carries a description, and when the first
\* application reports the target fainted the single outcome has its
\* targetFainted flag set.
C22_OutcomeRecordsRemoval ==
    TurnApplied
        => \A i \in DOMAIN turn.result.moveResults :
            /\ {"targetFainted", "userFainted", "description"}
                    \subseteq DOMAIN turn.result.moveResults[i]
            /\ (i = 1 /\ FirstApplied.targetFainted)
                => turn.result.moveResults[i].targetFainted

(***************************************************************************)
(* Properties of the session's phases (SpecMoves).  A session is Resolved  *)
(* while it holds a turn result that advance has not yet taken.            *)
(***************************************************************************)
\* the latest operation was applied to a started session holding a turn result
WasResolved ==
    /\ WasStored
    /\ Pre.active
    /\ Pre.turnResults # <<>>

\* C23: setPlayerMove and setOpponentMove change nothing when the session is
\* not started or holds a turn result that has not been advanced.
C23_SelectRejectedInResolved ==
    (/\ last.op \in {"setPlayerMove", "setOpponentMove"}
     /\ (~WasStored \/ WasResolved))
        => playAhead = last.before

\* C24: an execute issued while the session holds a turn result that has not
\* been advanced leaves the working snapshot and the turn result unchanged.
C24_ExecuteRejectedInResolved ==
    (last.op = "executeSimulation" /\ WasResolved)
        => /\ Post.simulatedBattleState = Pre.simulatedBattleState
           /\ Post.turnResults = Pre.turnResults

(***************************************************************************)
(* Properties of the turn history (SpecMoves, Spec).  executeSimulation is *)
(* given "p1" as the player's side.                                        *)
(***************************************************************************)
\* the move a history entry records for the side of an outcome
EntryMove(entry, playerKey) ==
    IF playerKey = "p1" THEN entry.playerMove ELSE entry.opponentMove

\* C25: every history entry holds a non-empty turn result, and each outcome
\* of that result is of the move the entry records for the outcome's side.
C25_HistoryEntrySelfConsistent ==
    \A id \in DOMAIN playAhead :
        \A i \in DOMAIN playAhead[id].turnHistory :
            LET entry == playAhead[id].turnHistory[i] IN
            /\ entry.results # <<>>
            /\ \A j \in DOMAIN entry.results :
                entry.results[j].move = EntryMove(entry, entry.results[j].playerKey)

\* C26: in every session the history has as many entries as the turn counter
\* counts, and its k-th entry carries turn index k.
C26_HistoryLengthIsCounter ==
    \A id \in DOMAIN playAhead :
        /\ Len(playAhead[id].turnHistory) = playAhead[id].simulatedTurns
        /\ \A k \in DOMAIN playAhead[id].turnHistory :
            playAhead[id].turnHistory[k].turn = k

(***************************************************************************)
(* Properties of the speed tie (SpecOrder).                                *)
(***************************************************************************)
\* C27: with equal priorities and equal effective speeds the draw decides
\* the order: the first side is ordered first when the draw falls its way
\* and the second side otherwise, the reason is "random" with trick room on
\* or off, and the two keys returned are distinct, each with its own move.
C27_TieDecidedByDraw ==
    (Ordered /\ P1Priority = P2Priority /\ P1Speed = P2Speed)
        => /\ turn.result.reason = "random"
           /\ turn.result.firstPlayerKey # turn.result.secondPlayerKey
           /\ IF turn.in.draw THEN P1OrderedFirst ELSE P2OrderedFirst

\* on a tie under trick room the draw ordered the second side first
C27_Witness ==
    /\ Ordered
    /\ P1Priority = P2Priority
    /\ P1Speed = P2Speed
    /\ turn.in.field.isTrickRoom
    /\ ~turn.in.draw
    /\ turn.in.p1Move # turn.in.p2Move
    /\ turn.result.firstMove = turn.in.p2Move
    /\ turn.result.firstPlayerKey = "p2"
    /\ turn.result.reason = "random"

(***************************************************************************)
(* Properties of a turn of two moves (SpecTurn).                           *)
(***************************************************************************)
\* the result of applying the second move of the resolved order, by the side
\* ordered second against the side ordered first, to the snapshot the first
\* application returned
SecondApplied ==
    applyMoveEffects(FirstApplied.battleState, TurnOrder.secondPlayerKey,
                     TurnOrder.firstPlayerKey, TurnOrder.secondMove, turn.in.m2)

\* C28: when the first application reports neither the target nor the user
\* fainted, simulateTurn returns the snapshot that the second application
\* makes of the first application's snapshot, and exactly two outcomes: the
\* first of the side and move ordered first and flagged as moving first, the
\* second of the other side and its move and not flagged.
C28_SecondMoveFollowsFirst ==
    (TurnApplied /\ ~FirstApplied.targetFainted /\ ~FirstApplied.userFainted)
        => /\ turn.result.battleState = SecondApplied.battleState
           /\ Len(turn.result.moveResults) = 2
           /\ turn.result.moveResults[1].playerKey = TurnOrder.firstPlayerKey
           /\ turn.result.moveResults[1].move = TurnOrder.firstMove
           /\ turn.result.moveResults[1].movesFirst
           /\ turn.result.moveResults[2].playerKey = TurnOrder.secondPlayerKey
           /\ turn.result.moveResults[2].move = TurnOrder.secondMove
           /\ ~turn.result.moveResults[2].movesFirst
           /\ turn.result.moveResults[1].playerKey
                # turn.result.moveResults[2].playerKey

\* both moves of a turn changed the snapshot, the second one after the first
C28_Witness ==
    /\ TurnApplied
    /\ ~FirstApplied.targetFainted /\ ~FirstApplied.userFainted
    /\ Len(turn.result.moveResults) = 2
    /\ FirstApplied.battleState # turn.in.battleState
    /\ turn.result.battleState # FirstApplied.battleState
    /\ turn.result.errors = <<>>

(***************************************************************************)
(* Properties of recoil and drain without damage (SpecApply).              *)
(***************************************************************************)
\* the damage the damage stage applies for the matchup given: the midpoint
\* of a range, a scalar, and 0 without either
AppliedDamage ==
    IF turn.in.matchup.kind = "range" THEN Midpoint
    ELSE IF turn.in.matchup.kind = "number" THEN turn.in.matchup.value
    ELSE 0

\* C29: a move with a recoil or a drain fraction whose applied damage is 0
\* leaves the actor's health as it was.
C29_NoRecoilOrDrainWithoutDamage ==
    (/\ Applied /\ ApplyValid
     /\ (Dex[turn.in.move].recoil # <<>> \/ Dex[turn.in.move].drain # <<>>)
     /\ AppliedDamage = 0)
        => Health(ActorOut) = Health(ActorIn)

(***************************************************************************)
(* Properties of fainted combatants (SpecApply).                           *)
(***************************************************************************)
\* C30: applying a move by or against a combatant whose health is 0 reports
\* an error and changes neither combatant's health.
C30_FaintedCombatantIneligible ==
    (/\ Applied /\ ApplyValid
     /\ turn.in.keys[1] # turn.in.keys[2]
     /\ (Health(ActorIn) = 0 \/ Health(TargetIn) = 0))
        => /\ turn.result.errors # <<>>
           /\ Health(ActorOut) = Health(ActorIn)
           /\ Health(TargetOut) = Health(TargetIn)

(***************************************************************************)
(* Properties of health bounds (SpecHealth).  Every combatant of the live  *)
(* battle state a session starts from has 0 <= hp <= maxhp.                *)
(***************************************************************************)
\* every combatant of a snapshot has 0 <= health <= maxHealth
HealthsInBounds(battleState) ==
    \A k \in {"p1", "p2"} :
        \A i \in DOMAIN battleState[k].pokemon :
            /\ 0 <= Health(battleState[k].pokemon[i])
            /\ Health(battleState[k].pokemon[i])
                    <= MaxHealth(battleState[k].pokemon[i])

\* C31: started from a live battle state whose combatants have
\* 0 <= health <= maxHealth, every session's working snapshot keeps every
\* combatant within 0 <= health <= maxHealth.
C31_HealthStaysInBounds ==
    HealthsInBounds(calcdex)
        => \A id \in DOMAIN playAhead :
            HealthsInBounds(playAhead[id].simulatedBattleState)

\* after an advance, a drain move healed its user up to its maximum and no
\* further, while the target lost health
C31_Witness ==
    /\ last.op = "executeSimulation" /\ WasStored /\ last.called
    /\ Pre.simulatedTurns >= 1
    /\ Pre.playerMove = "Giga Drain"
    /\ Post.turnResults # <<>>
    /\ SideHealth(Pre, "p1") < SideHealth(Post, "p1")
    /\ SideHealth(Post, "p1") = MaxHp
    /\ SideHealth(Post, "p2") < SideHealth(Pre, "p2")

(***************************************************************************)
(* Properties of the stages' composition (SpecEffects).                    *)
(***************************************************************************)
\* C32: for a move with a recoil and a drain fraction that deals damage
\* D > 0 and whose actor survives the recoil, the actor's final health is
\* min(maxHealth, (health - recoil) + heal).
C32_DrainStartsFromRecoil ==
    (/\ Applied /\ ApplyValid /\ DamagingWithRange
     /\ Dex[turn.in.move].recoil # <<>>
     /\ Dex[turn.in.move].drain # <<>>
     /\ Midpoint > 0
     /\ Health(ActorIn) - Share(Dex[turn.in.move].recoil) > 0)
        => Health(ActorOut)
                = Min(MaxHealth(ActorIn),
                      Health(ActorIn) - Share(Dex[turn.in.move].recoil)
                            + Share(Dex[turn.in.move].drain))

(***************************************************************************)
(* Properties of the actors of a turn (SpecTurn).                          *)
(***************************************************************************)
\* C33: every outcome simulateTurn records is of the player's move with the
\* playerKey argument as actor, or of the opponent's move with the
\* opponentKey argument as actor.
C33_MoveAppliedByItsSelector ==
    TurnApplied
        => \A i \in DOMAIN turn.result.moveResults :
            <<turn.result.moveResults[i].playerKey, turn.result.moveResults[i].move>>
                \in {<<turn.in.keys[1], turn.in.playerMove>>,
                     <<turn.in.keys[2], turn.in.opponentMove>>}

(***************************************************************************)
(* Properties of a turn that cannot be simulated (SpecErrors).             *)
(***************************************************************************)
\* the latest execute gave simulateTurn a side key that the snapshot does
\* not hold, or a side without an active combatant
TurnNotSimulable ==
    /\ turn.phase = "executed"
    /\ \/ turn.playerKey \notin {"p1", "p2"}
       \/ turn.opponentKey \notin {"p1", "p2"}
       \/ turn.battleState[turn.playerKey].pokemon = <<>>
       \/ turn.battleState[turn.opponentKey].pokemon = <<>>

\* C34: when a side key is not in the snapshot or a side has no active
\* combatant, simulateTurn returns no outcomes, a non-empty errors list and
\* a snapshot equal to its input; the execute leaves the session active with
\* its snapshot, counter and history, and a following setPlayerMove,
\* setOpponentMove or resetSimulation is carried out.
C34_UnsimulableTurnIsReported ==
    TurnNotSimulable
        => /\ ~turn.result.threw
           /\ turn.result.moveResults = <<>>
           /\ turn.result.errors # <<>>
           /\ turn.result.battleState = turn.battleState
           /\ (last.op = "executeSimulation" /\ last.called /\ WasStored)
                => /\ Post.active
                   /\ Post.simulatedBattleState = Pre.simulatedBattleState
                   /\ Post.simulatedTurns = Pre.simulatedTurns
                   /\ Post.turnHistory = Pre.turnHistory
           /\ (last.op = "setPlayerMove" /\ WasStored)
                => Post.playerMove = last.move
           /\ (last.op = "setOpponentMove" /\ WasStored)
                => Post.opponentMove = last.move
           /\ (last.op = "resetSimulation" /\ WasStored)
                => last.battleId \notin DOMAIN playAhead

\* after an advance, an execute against a side without a combatant was
\* followed by the selection of another move
C34_Witness ==
    /\ TurnNotSimulable
    /\ turn.opponentKey = "p2"
    /\ last.op = "setPlayerMove" /\ WasStored
    /\ Pre.simulatedTurns >= 1
    /\ Pre.turnResults = <<>>
    /\ Post.playerMove # Pre.playerMove

(***************************************************************************)
(* Properties of the reducers on a session that is not active              *)
(* (SpecDispatch).                                                         *)
(***************************************************************************)
\* the reducers other than initSimulation and destroy
SessionReducers ==
    {"setPlayerMove", "setOpponentMove", "updateSimulatedState",
     "addPendingDecision", "resolvePendingDecision", "advanceTurn",
     "resetSimulation"}

\* the latest operation was given the empty id or an id with no session
OnInactiveSession == last.battleId = "" \/ ~WasStored

\* C35: setPlayerMove, setOpponentMove, updateSimulatedState,
\* addPendingDecision, resolvePendingDecision, advanceTurn and
\* resetSimulation given the empty id or an id without a stored session
\* leave the slice state as it was: no session is created, none is changed.
C35_InactiveSessionUntouched ==
    (last.op \in SessionReducers /\ OnInactiveSession)
        => playAhead = last.before

\* updateSimulatedState was dispatched with move outcomes for an id without
\* a session while another session was stored
C35_Witness ==
    /\ last.op = "updateSimulatedState"
    /\ last.battleId = "b1"
    /\ ~WasStored
    /\ "b2" \in DOMAIN last.before
    /\ last.before["b2"].pendingDecisions # <<>>

(***************************************************************************)
(* Properties of resolving the queue from the head (SpecDrain).            *)
(***************************************************************************)
\* C36: on a session holding a turn result and n >= 1 pending decisions,
\* after k resolves at index 0 with nothing enqueued the queue holds the
\* last n - k of the n decisions, so it is empty after exactly n resolves
\* and not before; an advanceTurn on the emptied queue then adds 1 to
\* simulatedTurns, appends one history entry and clears both moves and the
\* turn results.
C36_QueueEmptiesThenAdvance ==
    /\ Resolving
        => /\ turn.steps <= Len(turn.queue)
           /\ playAhead["b1"].pendingDecisions
                = SubSeq(turn.queue, turn.steps + 1, Len(turn.queue))
           /\ (playAhead["b1"].pendingDecisions = <<>>)
                <=> (turn.steps = Len(turn.queue))
           /\ playAhead["b1"].turnResults # <<>>
    /\ (/\ turn.phase = "advanced"
        /\ last.op = "advanceTurn"
        /\ turn.steps = Len(turn.queue))
        => /\ Pre.pendingDecisions = <<>>
           /\ Post.simulatedTurns = Pre.simulatedTurns + 1
           /\ Len(Post.turnHistory) = Len(Pre.turnHistory) + 1
           /\ Post.turnHistory[Len(Post.turnHistory)].results = Pre.turnResults
           /\ Post.playerMove = None
           /\ Post.opponentMove = None
           /\ Post.turnResults = <<>>

\* a queue of two different decisions was resolved from the head in two
\* steps and the session advanced
C36_Witness ==
    /\ turn.phase = "advanced"
    /\ last.op = "advanceTurn"
    /\ Len(turn.queue) = 2
    /\ turn.queue[1] # turn.queue[2]
    /\ turn.steps = 2
    /\ Post.simulatedTurns = Pre.simulatedTurns + 1

\* the latest operation was resolvePendingDecision on a stored session with
\* an index that names no entry of its queue
ResolvedOutsideQueue ==
    /\ last.op = "resolvePendingDecision"
    /\ WasStored
    /\ (last.index < 0 \/ last.index >= Len(Pre.pendingDecisions))

\* C37: resolvePendingDecision with an index below 0 or at or above the
\* length of the queue leaves the queue and the rest of the slice state as
\* they were.
C37_ResolveOutsideQueueRemovesNothing ==
    ResolvedOutsideQueue => playAhead = last.before

(***************************************************************************)
(* Properties of the effects no stage applies (SpecEffects).               *)
(***************************************************************************)
\* the metadata of the move declares a stat change, a status (its own or a
\* chance one) or a weather
DeclaresEffect ==
    \/ Dex[turn.in.move].boosts # 0
    \/ Dex[turn.in.move].status # None
    \/ Dex[turn.in.move].secondary # 0
    \/ Dex[turn.in.move].weather # None

\* a snapshot with the health of the active combatants of the two sides of
\* the call blanked
HealthBlanked(battleState) ==
    [side \in DOMAIN battleState |->
        IF side \in {turn.in.keys[1], turn.in.keys[2]}
        THEN [battleState[side] EXCEPT
                !.pokemon[ActiveIndex(battleState[side]) + 1] =
                    [@ EXCEPT !.hp = 0, !.dirtyHp = 0]]
        ELSE battleState[side]]

Repeated == turn.in.phase = "repeated"

\* priority of each side's move in the second call
P1PriorityAgain ==
    IF turn.again.p1Move \in DOMAIN Dex THEN Dex[turn.again.p1Move].priority ELSE 0
P2PriorityAgain ==
    IF turn.again.p2Move \in DOMAIN Dex THEN Dex[turn.again.p2Move].priority ELSE 0

\* what a result says besides the two moves
Ordering(result) ==
    [firstPlayerKey  |-> result.firstPlayerKey,
     secondPlayerKey |-> result.secondPlayerKey,
     firstPriority   |-> result.firstPriority,
     secondPriority  |-> result.secondPriority,
     firstSpeed      |-> result.firstSpeed,
     secondSpeed     |-> result.secondSpeed,
     reason          |-> result.reason]

\* C39: two calls of determineMoveOrder on the same combatants and field
\* whose moves have the same priorities, the priorities or the effective
\* speeds of the two sides being different, return the same order, the same
\* priorities, speeds and reason whatever each call draws, and the same
\* record when the moves are the same.
C39_OrderRepeatsOutsideTie ==
    (/\ Repeated
     /\ P1PriorityAgain = P1Priority
     /\ P2PriorityAgain = P2Priority
     /\ (P1Priority # P2Priority \/ P1Speed # P2Speed))
        => /\ Ordering(turn.again.result) = Ordering(turn.result)
           /\ (turn.again.p1Move = turn.in.p1Move /\ turn.again.p2Move = turn.in.p2Move)
                => turn.again.result = turn.result

\* two calls with equal priorities and different speeds drew differently and
\* returned the same record
C39_Witness ==
    /\ Repeated
    /\ P1Priority = P2Priority
    /\ P1Speed < P2Speed
    /\ turn.again.draw # turn.in.draw
    /\ turn.again.p1Move = turn.in.p1Move
    /\ turn.again.p2Move = turn.in.p2Move
    /\ turn.again.result = turn.result
    /\ turn.result.firstMove = turn.in.p2Move

(***************************************************************************)
(* Properties of the controls (Spec).                                      *)
(***************************************************************************)
\* C40: 'Simulate Turn' is enabled exactly when a started session is stored
\* for the battle with both moves selected; 'Next Turn' is offered only
\* while the stored session holds a non-empty turn result; after an
\* advanceTurn it is not offered, and it comes to be offered only through
\* an executeSimulation that stored outcomes.
C40_ControlsFollowSession ==
    /\ SimulateTurnEnabled(playAhead, "b1")
        <=> /\ "b1" \in DOMAIN playAhead
            /\ playAhead["b1"].active
            /\ playAhead["b1"].playerMove # None
            /\ playAhead["b1"].opponentMove # None
    /\ NextTurnOffered(playAhead, "b1")
        => /\ "b1" \in DOMAIN playAhead
           /\ playAhead["b1"].turnResults # <<>>
    /\ (last.op = "advanceTurn" /\ last.battleId = "b1")
        => ~NextTurnOffered(playAhead, "b1")
    /\ (~NextTurnOffered(last.before, "b1") /\ NextTurnOffered(playAhead, "b1"))
        => /\ last.op = "executeSimulation"
           /\ last.called
           /\ Post.turnResults # <<>>

\* an advanceTurn took 'Next Turn' away and disabled 'Simulate Turn' on a
\* session that had advanced before
C40_Witness ==
    /\ last.op = "advanceTurn"
    /\ last.battleId = "b1"
    /\ NextTurnOffered(last.before, "b1")
    /\ SimulateTurnEnabled(last.before, "b1")
    /\ ~NextTurnOffered(playAhead, "b1")
    /\ ~SimulateTurnEnabled(playAhead, "b1")
    /\ "b1" \in DOMAIN playAhead
    /\ playAhead["b1"].simulatedTurns = 2

====
